---- MODULE Spec2Model ----
(***************************************************************************)
(* Model of the voucher_logic package: the analysis pipeline               *)
(* (controller.py), the validation report (models.py), the validator       *)
(* (validators.py), the highlight renderer (highlight.py), the rule-based  *)
(* extractor (extraction.py) and the result store (persistence.py).        *)
(*                                                                         *)
(* Text (Python str) is a sequence of Unicode code points, bytes a         *)
(* sequence of integers 0..255.  An optional value (Python None or a       *)
(* value) is a sequence of length 0 or 1.  Scores are in tenths,           *)
(* confidences in 1/700, normalized coordinates in hundredths.             *)
(***************************************************************************)
EXTENDS Integers, Sequences, FiniteSets, TLC

VARIABLES
    report,     \* SpecReport: the ValidationReport under a sequence of register calls
    lastRegister, \* SpecReport: the last register call and the report it was made on
    vdata,      \* SpecValidate: the ExtractedVoucherData last handed to validate
    vreport,    \* SpecValidate: the ValidationReport validate returned for vdata
    rendered,   \* SpecRender: the last render call, its arguments and its output
    collaborators, \* SpecAnalyze: the ingestor, extractor, validator, renderer and store in use
    _store,     \* SpecAnalyze: the dict of the InMemoryAnalysisStore, key to result id
    calls,      \* SpecAnalyze: the number of analyze_voucher calls made
    analysis,   \* SpecAnalyze: the last analyze_voucher call, what it did and its outcome
    call_args,  \* the arguments of the calls that a behaviour makes
    call_result, \* None before that call, then Some(what the method returned)
    session_state, \* SpecSession: st.session_state of one browser session
    pc          \* SpecSession: the statement each script run of the session is at

reportVars == <<report, lastRegister>>

validateVars == <<vdata, vreport>>

renderVars == <<rendered>>

analyzeVars == <<collaborators, _store, calls, analysis>>

callVars == <<call_args, call_result>>

sessionVars == <<session_state, pc>>

vars == <<report, lastRegister, vdata, vreport, rendered, collaborators, _store, calls, analysis, call_args, call_result, session_state, pc>>

(***************************************************************************)
(* Text and bytes                                                          *)
(***************************************************************************)

\* The printable ASCII characters in code-point order, 32 (space) to 126;
\* the grave accent, 96, is not written in this module and "\t" holds its
\* place.
Printable == " !\"#$%&'()*+,-./0123456789:;<=>?@ABCDEFGHIJKLMNOPQRSTUVWXYZ[\\]^_\tabcdefghijklmnopqrstuvwxyz{|}~"

\* ord(c) of each printable character.
CodePoint ==
    [c \in {SubSeq(Printable, k, k) : k \in 1..95} |->
        31 + (CHOOSE k \in 1..95 : SubSeq(Printable, k, k) = c)]

\* A str literal as a sequence of code points.
T(s) ==
    [i \in 1..Len(s) |->
        IF SubSeq(s, i, i) = "\n" THEN 10
        ELSE IF SubSeq(s, i, i) = "\t" THEN 9
        ELSE IF SubSeq(s, i, i) = "\r" THEN 13
        ELSE CodePoint[SubSeq(s, i, i)]]

\* None and Some(v) of an Optional.
None == <<>>

Some(v) == <<v>>

\* "first or second": the first optional when it holds a value, else the
\* second.
OrElse(first, second) == IF first # None THEN first ELSE second

\* The first element of a sequence of optionals that holds a value, or None.
FirstSome(options) ==
    IF \A k \in 1..Len(options) : options[k] = None THEN None
    ELSE options[CHOOSE k \in 1..Len(options) :
                     options[k] # None /\ \A j \in 1..(k - 1) : options[j] = None]

\* [0-9]
IsAsciiDigit(c) == c \in 48..57

\* A decimal digit (regex \d, int(), Decimal): ASCII or full-width.
IsDigit(c) == c \in 48..57 \/ c \in 65296..65305

\* str.isspace on the characters of the model's alphabet
\* (space, \t, \n, \v, \f, \r and the ideographic space U+3000).
IsSpace(c) == c \in {32, 9, 10, 11, 12, 13, 12288}

\* str.lower: ASCII and full-width capital letters to lower case.
Lower(t) ==
    [i \in 1..Len(t) |->
        IF t[i] \in 65..90 \/ t[i] \in 65313..65338 THEN t[i] + 32 ELSE t[i]]

\* str.lstrip(), str.rstrip(), str.strip() with no argument.
LStrip(t) ==
    IF \A i \in 1..Len(t) : IsSpace(t[i]) THEN <<>>
    ELSE SubSeq(t, CHOOSE i \in 1..Len(t) :
                      /\ ~IsSpace(t[i])
                      /\ \A j \in 1..(i - 1) : IsSpace(t[j]), Len(t))

RStrip(t) ==
    IF \A i \in 1..Len(t) : IsSpace(t[i]) THEN <<>>
    ELSE SubSeq(t, 1, CHOOSE i \in 1..Len(t) :
                         /\ ~IsSpace(t[i])
                         /\ \A j \in (i + 1)..Len(t) : IsSpace(t[j]))

Strip(t) == RStrip(LStrip(t))

\* p occurs in t at index i.
MatchAt(p, t, i) ==
    /\ i >= 1
    /\ i + Len(p) - 1 <= Len(t)
    /\ SubSeq(t, i, i + Len(p) - 1) = p

\* Python's `p in t`.
Contains(p, t) == \E i \in 1..(Len(t) - Len(p) + 1) : MatchAt(p, t, i)

\* str.find, 1-based; 0 when p does not occur (Python's -1).
Find(p, t) ==
    IF Contains(p, t)
    THEN CHOOSE i \in 1..(Len(t) - Len(p) + 1) :
             /\ MatchAt(p, t, i)
             /\ \A j \in 1..(i - 1) : ~MatchAt(p, t, j)
    ELSE 0

\* str.replace(old, new) for a non-empty old: leftmost, non-overlapping.
RECURSIVE Replace(_, _, _)
Replace(t, old, new) ==
    IF Find(old, t) = 0 THEN t
    ELSE LET i == Find(old, t)
         IN  SubSeq(t, 1, i - 1) \o new
                 \o Replace(SubSeq(t, i + Len(old), Len(t)), old, new)

\* The value of a string of decimal digits.
RECURSIVE ToInt(_)
ToInt(t) ==
    IF t = <<>> THEN 0
    ELSE 10 * ToInt(SubSeq(t, 1, Len(t) - 1))
             + (IF t[Len(t)] >= 65296 THEN t[Len(t)] - 65296 ELSE t[Len(t)] - 48)

AllDigits(t) == \A i \in 1..Len(t) : IsDigit(t[i])

(***************************************************************************)
(* models.py: RequirementStatus, ValidationOutcome, ValidationReport       *)
(***************************************************************************)

RequirementState == {"PASS", "FAIL", "UNKNOWN"}

ValidationOutcome == {"PASS", "WARNING", "FAIL", "UNKNOWN"}

RequirementStatus(status, message) == [status |-> status, message |-> message]

\* ValidationOutcome.from_requirements: the loop over the statuses in order,
\* returning FAIL at the first FAIL and remembering WARNING for an UNKNOWN.
RECURSIVE from_requirements_loop(_, _)
from_requirements_loop(statuses, outcome) ==
    IF statuses = <<>> THEN outcome
    ELSE IF Head(statuses).status = "FAIL" THEN "FAIL"
    ELSE IF Head(statuses).status = "UNKNOWN"
         THEN from_requirements_loop(Tail(statuses), "WARNING")
    ELSE from_requirements_loop(Tail(statuses), outcome)

from_requirements(statuses) ==
    IF statuses = <<>> THEN "UNKNOWN"
    ELSE from_requirements_loop(statuses, "PASS")

\* ValidationReport.empty(): requirements is an insertion-ordered dict,
\* modelled as the sequence of its (key, status) items.
ValidationReport_empty == [requirements |-> <<>>, overall_status |-> "UNKNOWN"]

ReportKeys(rep) == [i \in 1..Len(rep.requirements) |-> rep.requirements[i].key]

ReportValues(rep) == [i \in 1..Len(rep.requirements) |-> rep.requirements[i].value]

\* dict.__setitem__: an existing key keeps its position, a new key goes last.
DictSet(items, key, value) ==
    IF \E i \in 1..Len(items) : items[i].key = key
    THEN [i \in 1..Len(items) |->
             IF items[i].key = key THEN [key |-> key, value |-> value] ELSE items[i]]
    ELSE Append(items, [key |-> key, value |-> value])

\* A register that derives overall_status before storing the new status.
register_stale(rep, key, status) ==
    [requirements |-> DictSet(rep.requirements, key, status),
     overall_status |-> from_requirements(ReportValues(rep))]

\* ValidationReport.register
register(rep, key, status) ==
    LET requirements == DictSet(rep.requirements, key, status)
    IN  [requirements |-> requirements,
         overall_status |->
             from_requirements([i \in 1..Len(requirements) |-> requirements[i].value])]

(***************************************************************************)
(* models.py: FieldValue, ExtractedVoucherData                             *)
(***************************************************************************)

\* FieldValue(value, confidence, source_spans); notes are never read.
FieldValue(value, confidence, source_spans) ==
    [value |-> value, confidence |-> confidence, source_spans |-> source_spans]

FieldValue_empty == FieldValue(None, None, <<>>)

\* FieldValue(value=...) with the other fields at their defaults.
FieldValue_of(value) == FieldValue(value, None, <<>>)

\* FieldValue.is_set: value not in (None, "")
is_set(field_value) ==
    /\ field_value.value # None
    /\ field_value.value # Some(<<>>)

RequiredFields == <<"title", "company_name", "resolution_date", "dividend_amount">>

ExtractedVoucherData_empty ==
    [title |-> FieldValue_empty,
     company_name |-> FieldValue_empty,
     resolution_date |-> FieldValue_empty,
     dividend_amount |-> FieldValue_empty,
     source_highlights |-> <<>>]

(***************************************************************************)
(* validators.py: VoucherValidator                                         *)
(***************************************************************************)

IsLeap(year) == (year % 4 = 0 /\ year % 100 # 0) \/ year % 400 = 0

DaysInMonth(year, month) ==
    IF month = 2 THEN (IF IsLeap(year) THEN 29 ELSE 28)
    ELSE IF month \in {4, 6, 9, 11} THEN 30
    ELSE 31

\* datetime(year, month, day) does not raise ValueError.
IsCalendarDate(year, month, day) ==
    /\ year \in 1..9999
    /\ month \in 1..12
    /\ day \in 1..DaysInMonth(year, month)

\* The text strptime's %m accepts: 1[0-2]|0[1-9]|[1-9]
StrptimeMonth(t) ==
    \/ Len(t) = 1 /\ t[1] \in 49..57
    \/ Len(t) = 2 /\ t[1] = 48 /\ t[2] \in 49..57
    \/ Len(t) = 2 /\ t[1] = 49 /\ t[2] \in 48..50

\* The text strptime's %d accepts: 3[01]|[12]\d|0[1-9]|[1-9]| [1-9]
StrptimeDay(t) ==
    \/ Len(t) = 1 /\ t[1] \in 49..57
    \/ Len(t) = 2 /\ t[1] \in {48, 32} /\ t[2] \in 49..57
    \/ Len(t) = 2 /\ t[1] \in {49, 50} /\ IsDigit(t[2])
    \/ Len(t) = 2 /\ t[1] = 51 /\ t[2] \in {48, 49}

\* datetime.strptime(t, "%Y-%m-%d") does not raise: four digits, "-", a
\* month, "-", a day, nothing left over, and the date is in the calendar.
StrptimeYmd(t) ==
    /\ Len(t) >= 8
    /\ AllDigits(SubSeq(t, 1, 4))
    /\ t[5] = 45
    /\ \E k \in 7..8 :
          /\ k < Len(t)
          /\ t[k] = 45
          /\ StrptimeMonth(SubSeq(t, 6, k - 1))
          /\ StrptimeDay(SubSeq(t, k + 1, Len(t)))
          /\ IsCalendarDate(ToInt(SubSeq(t, 1, 4)),
                            ToInt(SubSeq(t, 6, k - 1)),
                            ToInt(Strip(SubSeq(t, k + 1, Len(t)))))

\* An _is_valid_date that checks the shape of the value and not the calendar.
_is_valid_date_by_shape(value) ==
    LET t == Strip(value)
    IN  /\ Len(t) = 10
        /\ AllDigits(SubSeq(t, 1, 4))
        /\ t[5] = 45
        /\ AllDigits(SubSeq(t, 6, 7))
        /\ t[8] = 45
        /\ AllDigits(SubSeq(t, 9, 10))

\* VoucherValidator._is_valid_date on a str value
_is_valid_date(value) == StrptimeYmd(Strip(value))

\* digits with at most one ".", at least one digit: (?=\d|\.\d)\d*(\.\d*)?
DecimalDigits(t) ==
    \/ Len(t) >= 1 /\ AllDigits(t)
    \/ \E k \in 1..Len(t) :
          /\ t[k] = 46
          /\ AllDigits(SubSeq(t, 1, k - 1))
          /\ AllDigits(SubSeq(t, k + 1, Len(t)))
          /\ Len(t) >= 2

\* the number syntax of decimal.Decimal after the sign: digits with an
\* optional exponent, Inf, Infinity, NaN or sNaN with optional digits.
DecimalBody(t) ==
    \/ DecimalDigits(t)
    \/ \E k \in 2..(Len(t) - 1) :
          /\ t[k] = 101
          /\ DecimalDigits(SubSeq(t, 1, k - 1))
          /\ LET exp == SubSeq(t, k + 1, Len(t))
                 digits == IF exp[1] \in {43, 45} THEN Tail(exp) ELSE exp
             IN  Len(digits) >= 1 /\ AllDigits(digits)
    \/ t \in {T("inf"), T("infinity")}
    \/ /\ Len(t) >= 3
       /\ SubSeq(t, 1, 3) = T("nan")
       /\ AllDigits(SubSeq(t, 4, Len(t)))
    \/ /\ Len(t) >= 4
       /\ SubSeq(t, 1, 4) = T("snan")
       /\ AllDigits(SubSeq(t, 5, Len(t)))

\* Decimal(t) does not raise InvalidOperation: surrounding whitespace and
\* underscores are dropped, the sign is optional, letters match in any case.
DecimalParses(t) ==
    LET s == Lower(Replace(Strip(t), T("_"), <<>>))
    IN  /\ s # <<>>
        /\ DecimalBody(IF s[1] \in {43, 45} THEN Tail(s) ELSE s)

\* VoucherValidator._is_valid_amount on a str value
_is_valid_amount(value) == DecimalParses(Strip(Replace(value, T(","), <<>>)))

\* An _evaluate_field that reports a malformed value as UNKNOWN.
_evaluate_field_lenient(field_name, field_value, missing_message) ==
    IF ~is_set(field_value)
    THEN RequirementStatus("FAIL", missing_message)
    ELSE IF field_name = "resolution_date" /\ ~_is_valid_date(field_value.value[1])
    THEN RequirementStatus("UNKNOWN", "date format")
    ELSE IF field_name = "dividend_amount" /\ ~_is_valid_amount(field_value.value[1])
    THEN RequirementStatus("UNKNOWN", "amount format")
    ELSE RequirementStatus("PASS", "")

\* VoucherValidator._evaluate_field
_evaluate_field(field_name, field_value, missing_message) ==
    IF ~is_set(field_value)
    THEN RequirementStatus("FAIL", missing_message)
    ELSE IF field_name = "resolution_date" /\ ~_is_valid_date(field_value.value[1])
    THEN RequirementStatus("FAIL", "date format")
    ELSE IF field_name = "dividend_amount" /\ ~_is_valid_amount(field_value.value[1])
    THEN RequirementStatus("FAIL", "amount format")
    ELSE RequirementStatus("PASS", "")

\* VoucherValidator.validate: the loop over self._requirements in order.
RECURSIVE validate_loop(_, _, _)
validate_loop(data, rep, i) ==
    IF i > Len(RequiredFields) THEN rep
    ELSE LET field_name == RequiredFields[i]
             status == _evaluate_field(field_name, data[field_name],
                                       "missing " \o field_name)
         IN  validate_loop(data, register(rep, field_name, status), i + 1)

validate(data) == validate_loop(data, ValidationReport_empty, 1)

(***************************************************************************)
(* Text formatting and encoding used by the PDF writer                     *)
(***************************************************************************)

\* str(n) for n >= 0
RECURSIVE NatToText(_)
NatToText(n) ==
    IF n < 10 THEN <<48 + n>>
    ELSE NatToText(n \div 10) \o <<48 + (n % 10)>>

\* f"{n}" for an int
IntToText(n) == IF n < 0 THEN <<45>> \o NatToText(0 - n) ELSE NatToText(n)

\* f"{n:0{width}d}" for n >= 0
RECURSIVE ZeroPad(_, _)
ZeroPad(t, width) == IF Len(t) >= width THEN t ELSE ZeroPad(<<48>> \o t, width)

\* f"{x:.2f}" of the number h / 100
Fixed2(h) ==
    LET a == IF h < 0 THEN 0 - h ELSE h
    IN  (IF h < 0 THEN <<45>> ELSE <<>>)
            \o NatToText(a \div 100) \o <<46>> \o ZeroPad(NatToText(a % 100), 2)

\* "sep".join(parts)
RECURSIVE Join(_, _)
Join(parts, sep) ==
    IF parts = <<>> THEN <<>>
    ELSE IF Len(parts) = 1 THEN parts[1]
    ELSE LET half == Len(parts) \div 2
         IN  Join(SubSeq(parts, 1, half), sep) \o sep
                 \o Join(SubSeq(parts, half + 1, Len(parts)), sep)

\* The UTF-8 bytes of one code point.
Utf8Char(c) ==
    IF c < 128 THEN <<c>>
    ELSE IF c < 2048 THEN <<192 + (c \div 64), 128 + (c % 64)>>
    ELSE IF c < 65536
    THEN <<224 + (c \div 4096), 128 + ((c \div 64) % 64), 128 + (c % 64)>>
    ELSE <<240 + (c \div 262144), 128 + ((c \div 4096) % 64),
           128 + ((c \div 64) % 64), 128 + (c % 64)>>

\* str.encode("utf-8")
RECURSIVE Utf8Encode(_)
Utf8Encode(t) ==
    IF t = <<>> THEN <<>>
    ELSE IF Len(t) = 1 THEN Utf8Char(t[1])
    ELSE LET half == Len(t) \div 2
         IN  Utf8Encode(SubSeq(t, 1, half)) \o Utf8Encode(SubSeq(t, half + 1, Len(t)))

\* len(text.encode("utf-8"))
RECURSIVE Utf8Len(_)
Utf8Len(t) ==
    IF t = <<>> THEN 0
    ELSE IF Len(t) = 1 THEN Len(Utf8Char(t[1]))
    ELSE LET half == Len(t) \div 2
         IN  Utf8Len(SubSeq(t, 1, half)) + Utf8Len(SubSeq(t, half + 1, Len(t)))

\* The line boundaries of str.splitlines.
IsLineBreak(c) == c \in {10, 11, 12, 13, 28, 29, 30, 133, 8232, 8233}

\* str.splitlines(): "\r\n" is one boundary, a trailing boundary opens no line.
RECURSIVE SplitLines(_)
SplitLines(t) ==
    IF t = <<>> THEN <<>>
    ELSE IF \A i \in 1..Len(t) : ~IsLineBreak(t[i]) THEN <<t>>
    ELSE LET i == CHOOSE k \in 1..Len(t) :
                      /\ IsLineBreak(t[k])
                      /\ \A j \in 1..(k - 1) : ~IsLineBreak(t[j])
             next == IF t[i] = 13 /\ i < Len(t) /\ t[i + 1] = 10 THEN i + 2 ELSE i + 1
         IN  <<SubSeq(t, 1, i - 1)>> \o SplitLines(SubSeq(t, next, Len(t)))

(***************************************************************************)
(* highlight.py: _SimplePDFBuilder, HighlightRenderer                      *)
(***************************************************************************)

\* _SimplePDFBuilder.__init__ defaults, in points.
PageWidth == 595

PageHeight == 842

PageMargin == 48

FontSize == 12

Leading == FontSize + 4

HighlightSpan(page, bbox, label) == [page |-> page, bbox |-> bbox, label |-> label]

\* ParsedDocument(pages, tokens, metadata); of the metadata the page count
\* and an Optional "Title" are kept.
TitledDocument(pages, tokens, page_count, title) ==
    [pages |-> pages, tokens |-> tokens,
     metadata |-> [page_count |-> Some(page_count), Title |-> title]]

ParsedDocument(pages, tokens, page_count) == TitledDocument(pages, tokens, page_count, None)

\* max(min(x, 1.0), 0.0) of a coordinate in hundredths
Clamp01(x) == IF x > 100 THEN 100 ELSE IF x < 0 THEN 0 ELSE x

Max(a, b) == IF a >= b THEN a ELSE b

\* The four commands that paint one highlight rectangle (lengths in 1/100 pt).
HighlightCommands(bbox) ==
    LET usable_width == PageWidth - 2 * PageMargin
        usable_height == PageHeight - 2 * PageMargin
        absolute_x0 == PageMargin * 100 + usable_width * Clamp01(bbox[1])
        absolute_x1 == PageMargin * 100 + usable_width * Clamp01(bbox[3])
        absolute_y0 == PageMargin * 100 + usable_height * Clamp01(bbox[2])
        absolute_y1 == PageMargin * 100 + usable_height * Clamp01(bbox[4])
        width == Max(absolute_x1 - absolute_x0, 200)
        height == Max(absolute_y1 - absolute_y0, Leading * 80)
    IN  <<T("q"), T("1 1 0 rg"),
          Fixed2(absolute_x0) \o T(" ") \o Fixed2(absolute_y0) \o T(" ")
              \o Fixed2(width) \o T(" ") \o Fixed2(height) \o T(" re f"),
          T("Q")>>

\* The five commands that show one line of text at height cursor_y (points).
LineCommands(line, cursor_y) ==
    LET safe_text == Replace(Replace(Replace(line, T("\\"), T("\\\\")),
                                     T("("), T("\\(")), T(")"), T("\\)"))
    IN  <<T("BT"),
          T("/F1 ") \o IntToText(FontSize) \o T(".0 Tf"),
          T("1 0 0 1 ") \o Fixed2(PageMargin * 100) \o T(" ")
              \o Fixed2(cursor_y * 100) \o T(" Tm"),
          T("(") \o safe_text \o T(") Tj"),
          T("ET")>>

RECURSIVE HighlightLoop(_)
HighlightLoop(highlights) ==
    IF highlights = <<>> THEN <<>>
    ELSE HighlightCommands(Head(highlights)) \o HighlightLoop(Tail(highlights))

RECURSIVE LineLoop(_, _)
LineLoop(lines, cursor_y) ==
    IF lines = <<>> THEN <<>>
    ELSE LineCommands(Head(lines), cursor_y) \o LineLoop(Tail(lines), cursor_y - Leading)

\* _SimplePDFBuilder._build_page_content
_build_page_content(lines, highlights) ==
    Join(HighlightLoop(highlights)
             \o LineLoop(lines, PageHeight - PageMargin - FontSize),
         T("\n"))

\* The objects of build() in the order they are written: catalog, page tree,
\* font, the page objects, then the content streams.  pages[k] is
\* <<lines, highlights>>; page k has content id 2k + 2 and page id 2k + 3.
BuildObjects(pages) ==
    LET n == Len(pages)
        content_id(k) == 2 * k + 2
        page_id(k) == 2 * k + 3
        page_dict(k) ==
            T("<< /Type /Page /Parent 2 0 R /MediaBox [0 0 ")
                \o IntToText(PageWidth) \o T(" ") \o IntToText(PageHeight) \o T("] ")
                \o T("/Resources << /Font << /F1 3 0 R >> >> /Contents ")
                \o IntToText(content_id(k)) \o T(" 0 R >>")
        stream(content) ==
            T("<< /Length ") \o IntToText(Utf8Len(content))
                \o T(" >>\nstream\n") \o content \o T("\nendstream")
        pages_dict ==
            T("<< /Type /Pages /Count ") \o IntToText(n) \o T(" /Kids [")
                \o Join([k \in 1..n |-> IntToText(page_id(k)) \o T(" 0 R")], T(" "))
                \o T("] >>")
    IN  <<[id |-> 1, body |-> T("<< /Type /Catalog /Pages 2 0 R >>")],
          [id |-> 2, body |-> pages_dict],
          [id |-> 3, body |-> T("<< /Type /Font /Subtype /Type1 /BaseFont /Helvetica >>")]>>
            \o [k \in 1..n |-> [id |-> page_id(k), body |-> page_dict(k)]]
            \o [k \in 1..n |->
                   [id |-> content_id(k),
                    body |-> stream(_build_page_content(pages[k][1], pages[k][2]))]]

\* f"{obj_id} 0 obj\n{body}\nendobj"
ObjHeader(obj) == IntToText(obj.id) \o T(" 0 obj\n") \o obj.body \o T("\nendobj")

\* An offset that counts characters instead of bytes.
RECURSIVE ObjOffset_in_characters(_, _)
ObjOffset_in_characters(objects, k) ==
    IF k = 1 THEN Len(T("%PDF-1.4\n"))
    ELSE ObjOffset_in_characters(objects, k - 1) + Len(ObjHeader(objects[k - 1])) + 1

\* offsets[obj_id] for the k-th written object: the running byte offset.
RECURSIVE ObjOffset(_, _)
ObjOffset(objects, k) ==
    IF k = 1 THEN Len(T("%PDF-1.4\n"))
    ELSE ObjOffset(objects, k - 1) + Utf8Len(ObjHeader(objects[k - 1])) + 1

\* _SimplePDFBuilder.build
build(pages) ==
    LET offset_of(objects, obj_id) ==
            IF \E k \in 1..Len(objects) : objects[k].id = obj_id
            THEN ObjOffset(objects, CHOOSE k \in 1..Len(objects) : objects[k].id = obj_id)
            ELSE 0
        xref_start(objects, count) ==
            ObjOffset(objects, count) + Utf8Len(ObjHeader(objects[count])) + 1
        xref_lines(objects, max_obj) ==
            <<T("xref"), T("0 ") \o IntToText(max_obj + 1), T("0000000000 65535 f ")>>
                \o [obj_id \in 1..max_obj |->
                        ZeroPad(IntToText(offset_of(objects, obj_id)), 10) \o T(" 00000 n ")]
        trailer(objects, max_obj) ==
            T("trailer\n<< /Size ") \o IntToText(max_obj + 1) \o T(" /Root 1 0 R >>\n")
                \o T("startxref\n") \o IntToText(xref_start(objects, Len(objects)))
                \o T("\n%%EOF")
        written(objects, max_obj) ==
            Utf8Encode(Join(<<T("%PDF-1.4")>>
                                \o [k \in 1..Len(objects) |-> ObjHeader(objects[k])]
                                \o xref_lines(objects, max_obj)
                                \o <<trailer(objects, max_obj)>>,
                            T("\n")))
        numbered(objects) ==
            written(objects, CHOOSE m \in {objects[k].id : k \in 1..Len(objects)} :
                                 \A k \in 1..Len(objects) : objects[k].id <= m)
    IN  numbered(BuildObjects(pages))

\* The pages handed to the builder: each page's lines and the boxes of the
\* spans on that page that have a box.
RenderPages(spans, parsed_document) ==
    [page_number \in 1..Len(parsed_document.pages) |->
        <<SplitLines(parsed_document.pages[page_number]),
          LET on_page == SelectSeq(spans, LAMBDA span :
                                       span.page = page_number /\ span.bbox # <<>>)
          IN  [i \in 1..Len(on_page) |-> on_page[i].bbox]>>]

\* A render that only looks at the pages, not at the spans.
render_always_builds(original_pdf, spans, parsed_document) ==
    IF parsed_document = None \/ parsed_document[1].pages = <<>> THEN original_pdf
    ELSE build(RenderPages(spans, parsed_document[1]))

\* HighlightRenderer.render; parsed_document is an Optional.
render(original_pdf, spans, parsed_document) ==
    IF spans = <<>> THEN original_pdf
    ELSE IF parsed_document = None \/ parsed_document[1].pages = <<>> THEN original_pdf
    ELSE build(RenderPages(spans, parsed_document[1]))

(***************************************************************************)
(* extraction.py: keyword tables.  A keyword with characters outside ASCII  *)
(* is written as its code points.                                          *)
(***************************************************************************)

TITLE_KEYWORDS_JP ==
    <<<<37197, 24403>>, <<21104, 20313, 37329>>,
      <<21033, 30410, 20966, 20998>>, <<27770, 35696>>,
      <<35696, 20107, 37682>>, <<21462, 32224, 24441, 20250>>,
      <<26666, 20027, 32207, 20250>>,
      <<33256, 26178, 26666, 20027, 32207, 20250>>,
      <<23450, 26178, 26666, 20027, 32207, 20250>>>>

TITLE_SUFFIX_JP ==
    <<<<27770, 35696, 26360>>, <<35696, 20107, 37682>>,
      <<36890, 30693, 26360>>, <<22577, 21578, 26360>>,
      <<25215, 35469, 26360>>>>

TITLE_KEYWORDS_EN ==
    <<T("dividend"), T("distribution"), T("resolution"), T("board"),
      T("directors"), T("shareholders"), T("meeting"), T("minutes"),
      T("declaration"), T("approval"), T("consent"), T("payment")>>

TITLE_SUFFIX_EN ==
    <<T("resolution"), T("minutes"), T("consent"), T("certificate"),
      T("declaration"), T("notice")>>

TITLE_VERB_TERMS ==
    <<T("resolved"), T("resolve"), T("resolves"), T("approved"),
      T("approves"), T("approve"), T("hereby"), T("shall"), T("will"),
      T("decided"), T("decides"), T("distribute"), T("distributing"),
      T("distributes"), <<12377, 12427>>,
      <<12356, 12383, 12375, 12414, 12377>>, <<27770, 35696, 12377, 12427>>,
      <<21487, 27770, 12377, 12427>>>>

JP_COMPANY_KEYWORDS ==
    <<<<26666, 24335, 20250, 31038>>, <<26377, 38480, 20250, 31038>>,
      <<21512, 21516, 20250, 31038>>, <<23398, 26657, 27861, 20154>>,
      <<21307, 30274, 27861, 20154>>, <<40, 26666, 41>>,
      <<65288, 26666, 65289>>, <<12849>>, <<40, 26377, 41>>,
      <<65288, 26377, 65289>>>>

EN_COMPANY_KEYWORDS ==
    <<T("co."), T("co"), T("co., ltd"), T("co., ltd."), T("co ltd"),
      T("company"), T("corp"), T("corp."), T("corporation"), T("inc"),
      T("inc."), T("limited"), T("ltd"), T("ltd."), T("holdings"), T("group"),
      T("llc"), T("plc"), T("gmbh"), T("s.a."), T("s.p.a."), T("pte ltd"),
      T("pty ltd"), T("ag"), T("bv"), T("nv")>>

COMPANY_INVALID_TERMS ==
    <<T("resolved"), T("resolve"), T("resolves"), T("approved"), T("approve"),
      T("approves"), T("decided"), T("decide"), T("distribute"),
      T("distributing"), T("distributed"), T("dividend"), T("meeting"),
      T("board"), T("directors"), T("shareholders"), T("agenda"),
      <<27770, 35696>>, <<38283, 20652>>, <<23455, 26045>>, <<20998, 37197>>,
      <<37197, 24403>>, <<25903, 25173>>>>

COMPANY_LABEL_KEYWORDS ==
    <<<<20250, 31038, 21517>>, <<31038, 21517>>, <<27861, 20154, 21517>>,
      <<21830, 21495>>, <<26666, 24335, 20250, 31038>>, <<40, 26666, 41>>,
      T("Company Name"), T("Corporate Name"), T("Company")>>

COMPANY_EXCLUDE_KEYWORDS ==
    <<<<25152, 22312, 22320>>, <<20303, 25152>>, T("address")>>

\* A list of keyword groups, tried in order.
DATE_LABEL_PRIORITY ==
    << <<<<37197, 24403, 27770, 35696, 26085>>, <<27770, 35696, 26085>>,
      <<21462, 32224, 24441, 20250, 27770, 35696, 26085>>,
      T("Board Resolution Date"), T("Resolution Date")>> >>

DATE_EXCLUDE_KEYWORDS ==
    <<<<22522, 28310, 26085>>, T("record date"), <<21177, 21147>>,
      <<25903, 25173>>, T("payment"), <<26666, 20027, 30906, 23450, 26085>>>>

AMOUNT_LABEL_KEYWORDS ==
    <<<<32207, 37197, 24403, 37329, 38989>>,
      <<37197, 24403, 37329, 32207, 38989>>, <<37197, 24403, 37329, 38989>>,
      <<25903, 25173, 37197, 24403, 37329, 38989>>,
      T("Total Amount of Dividends"), T("Total Dividends")>>

(***************************************************************************)
(* extraction.py: RuleBasedVoucherExtractor, lines and labelled values.     *)
(* Documents are written in ASCII, the full-width forms of ASCII,          *)
(* the ideographic space, kana and CJK ideographs.                         *)
(***************************************************************************)

\* A character that the regular expression class \w matches.
IsWord(c) ==
    \/ c \in 48..57 \/ c \in 65..90 \/ c \in 97..122 \/ c = 95
    \/ c \in 12353..12438 \/ c \in 12449..12538 \/ c \in 19968..40959
    \/ c \in 65296..65305 \/ c \in 65313..65338 \/ c \in 65345..65370

\* re.sub(r"\s+", " ", t) on t[lo..hi]: each run of white space becomes one space.
RECURSIVE CollapseSpaces(_, _, _)
CollapseSpaces(t, lo, hi) ==
    IF lo > hi THEN <<>>
    ELSE IF lo = hi
    THEN IF ~IsSpace(t[lo]) THEN <<t[lo]>>
         ELSE IF lo = 1 \/ ~IsSpace(t[lo - 1]) THEN <<32>>
         ELSE <<>>
    ELSE LET mid == (lo + hi) \div 2
         IN  CollapseSpaces(t, lo, mid) \o CollapseSpaces(t, mid + 1, hi)

\* _normalize_delimiters: full-width colon to ":", ideographic space and tab
\* to " ", the hyphens U+2010 and U+2015 to "-", runs of white space to one
\* space, then strip.
_normalize_delimiters(text) ==
    LET normalized ==
            [i \in 1..Len(text) |->
                IF text[i] = 65306 THEN 58
                ELSE IF text[i] \in {12288, 9} THEN 32
                ELSE IF text[i] \in {8208, 8213} THEN 45
                ELSE text[i]]
    IN  Strip(CollapseSpaces(normalized, 1, Len(normalized)))

\* _iter_page_lines: the stripped non-empty lines of every page, each with
\* its 1-based page and its 0-based position among the page's raw lines.
RECURSIVE _iter_page_lines(_, _)
_iter_page_lines(pages, page_index) ==
    IF page_index > Len(pages) THEN <<>>
    ELSE LET raw == SplitLines(pages[page_index])
             all == [k \in 1..Len(raw) |->
                        [page |-> page_index, index |-> k - 1, text |-> Strip(raw[k])]]
         IN  SelectSeq(all, LAMBDA line : line.text # <<>>)
                 \o _iter_page_lines(pages, page_index + 1)

_collect_lines(parsed) == _iter_page_lines(parsed.pages, 1)

_line_contains_keyword(text, keywords) ==
    LET normalized == Lower(_normalize_delimiters(text))
    IN  \E k \in 1..Len(keywords) :
            LET keyword_normalized == Lower(_normalize_delimiters(keywords[k]))
            IN  keyword_normalized # <<>> /\ Contains(keyword_normalized, normalized)

\* str.lstrip(chars)
LStripChars(t, chars) ==
    IF \A i \in 1..Len(t) : t[i] \in chars THEN <<>>
    ELSE SubSeq(t, CHOOSE i \in 1..Len(t) :
                      /\ t[i] \notin chars
                      /\ \A j \in 1..(i - 1) : t[j] \in chars, Len(t))

\* str.rstrip(chars)
RStripChars(t, chars) ==
    IF \A i \in 1..Len(t) : t[i] \in chars THEN <<>>
    ELSE SubSeq(t, 1, CHOOSE i \in 1..Len(t) :
                         /\ t[i] \notin chars
                         /\ \A j \in (i + 1)..Len(t) : t[j] \in chars)

\* The text after the first keyword, in keyword order, that occurs in the
\* line and leaves a non-empty segment; "" when there is none.
_extract_segment_after_keyword(normalized_text, lowered_text, keywords) ==
    LET segment(k) ==
            LET keyword_lower == Lower(_normalize_delimiters(keywords[k]))
                index == Find(keyword_lower, lowered_text)
            IN  IF index = 0 THEN <<>>
                ELSE Strip(LStripChars(
                         SubSeq(normalized_text, index + Len(keyword_lower),
                                Len(normalized_text)),
                         {58, 65306, 45, 8208, 8213, 32, 12288}))
        found == {k \in 1..Len(keywords) : segment(k) # <<>>}
    IN  IF found = {} THEN <<>>
        ELSE segment(CHOOSE k \in found : \A j \in found : k <= j)

\* The number of decimal digits of t that start at index k.
DigitRun(t, k) ==
    CHOOSE n \in 0..Len(t) :
        /\ k + n - 1 <= Len(t)
        /\ \A j \in k..(k + n - 1) : IsDigit(t[j])
        /\ (k + n > Len(t) \/ ~IsDigit(t[k + n]))

\* NUMERIC_AMOUNT_PATTERN.search(t).group(1), None without a match.  The
\* match starts at the leftmost digit.  At an ASCII digit the first
\* alternative matches: one to three ASCII digits, greedily the groups
\* ",ddd", and a fraction; at another digit the second: digits and a fraction.
NUMERIC_AMOUNT_PATTERN(t) ==
    LET fraction(stop) ==
            IF stop < Len(t) /\ t[stop] = 46 /\ DigitRun(t, stop + 1) >= 1
            THEN 1 + DigitRun(t, stop + 1)
            ELSE 0
        match(start, stop) == Some(SubSeq(t, start, stop + fraction(stop) - 1))
        group_ok(p) ==
            /\ p + 3 <= Len(t)
            /\ t[p] = 44
            /\ \A j \in (p + 1)..(p + 3) : IsAsciiDigit(t[j])
        \* the index after the groups ",ddd" that start at p
        after_groups(p) ==
            p + 4 * (CHOOSE g \in 0..Len(t) :
                         /\ \A h \in 0..(g - 1) : group_ok(p + 4 * h)
                         /\ ~group_ok(p + 4 * g))
        lead(start) ==
            CHOOSE n \in 1..3 :
                /\ start + n - 1 <= Len(t)
                /\ \A j \in start..(start + n - 1) : IsAsciiDigit(t[j])
                /\ (n = 3 \/ start + n > Len(t) \/ ~IsAsciiDigit(t[start + n]))
        search(start) ==
            match(start, IF IsAsciiDigit(t[start]) THEN after_groups(start + lead(start))
                         ELSE start + DigitRun(t, start))
    IN  IF \A i \in 1..Len(t) : ~IsDigit(t[i]) THEN None
        ELSE search(CHOOSE i \in 1..Len(t) :
                        IsDigit(t[i]) /\ \A j \in 1..(i - 1) : ~IsDigit(t[j]))

\* f"{n:,}" given the digits of n
RECURSIVE GroupThousands(_)
GroupThousands(digits) ==
    IF Len(digits) <= 3 THEN digits
    ELSE GroupThousands(SubSeq(digits, 1, Len(digits) - 3)) \o <<44>>
             \o SubSeq(digits, Len(digits) - 2, Len(digits))

\* int(float(numeric) * 100000000) for a numeric of digits with an optional
\* fraction: the fraction contributes its first eight digits.
TimesHundredMillion(numeric) ==
    LET parts(whole, frac) ==
            ToInt(whole) * 100000000 + ToInt(SubSeq(frac \o T("00000000"), 1, 8))
        at(dot) == IF dot = 0 THEN parts(numeric, <<>>)
                   ELSE parts(SubSeq(numeric, 1, dot - 1),
                              SubSeq(numeric, dot + 1, Len(numeric)))
    IN  at(Find(<<46>>, numeric))

\* _extract_numeric: the currency marks "JPY", U+00A5 and U+5186 are removed
\* before the search; without a match, a text with U+5104 is read as a count
\* of hundred millions.
_extract_numeric(text) ==
    LET oku(numeric_match) ==
            IF numeric_match = None THEN None
            ELSE Some(GroupThousands(NatToText(TimesHundredMillion(numeric_match[1]))))
        result(match) ==
            IF match # None THEN match
            ELSE IF ~Contains(<<20740>>, text) THEN None
            ELSE oku(NUMERIC_AMOUNT_PATTERN(
                         Replace(SubSeq(text, 1, Find(<<20740>>, text) - 1), <<44>>, <<>>)))
    IN  result(NUMERIC_AMOUNT_PATTERN(
                   Replace(Replace(Replace(text, T("JPY"), <<>>), <<165>>, <<>>),
                           <<20870>>, <<>>)))

\* A month and a day that start at index p: one or two digits, a separator
\* from seps, one or two digits, and then the character closer, or a word
\* boundary when closer is 0.  The set of <<month, day>> read there: empty
\* or one pair, since the separator and the close fix both lengths.
MonthDayAt(t, p, seps, closer) ==
    {<<ToInt(SubSeq(t, p, p + n[1] - 1)),
       ToInt(SubSeq(t, p + n[1] + 1, p + n[1] + n[2]))>> :
        n \in {m \in {1, 2} \X {1, 2} :
                  LET last == p + m[1] + m[2]
                  IN  /\ last <= Len(t)
                      /\ AllDigits(SubSeq(t, p, p + m[1] - 1))
                      /\ t[p + m[1]] \in seps
                      /\ AllDigits(SubSeq(t, p + m[1] + 1, last))
                      /\ IF closer = 0
                         THEN last = Len(t) \/ ~IsWord(t[last + 1])
                         ELSE last < Len(t) /\ t[last + 1] = closer}}

\* The year "20dd" at index i, as a set: empty or one number.
YearAt(t, i) ==
    IF /\ i + 3 <= Len(t)
       /\ t[i] = 50
       /\ t[i + 1] = 48
       /\ IsDigit(t[i + 2])
       /\ IsDigit(t[i + 3])
    THEN {ToInt(SubSeq(t, i, i + 3))}
    ELSE {}

\* DATE_PATTERN at index i: \b(20\d{2})[-/](\d{1,2})[-/](\d{1,2})\b
DATE_PATTERN(t, i) ==
    IF /\ (i = 1 \/ ~IsWord(t[i - 1]))
       /\ YearAt(t, i) # {}
       /\ i + 4 <= Len(t)
       /\ t[i + 4] \in {45, 47}
    THEN YearAt(t, i) \X MonthDayAt(t, i + 5, {45, 47}, 0)
    ELSE {}

\* KANJI_DATE_PATTERN at index i: the year, U+5E74, the month, U+6708, the
\* day, U+65E5.
KANJI_DATE_PATTERN(t, i) ==
    IF YearAt(t, i) # {} /\ i + 4 <= Len(t) /\ t[i + 4] = 24180
    THEN YearAt(t, i) \X MonthDayAt(t, i + 5, {26376}, 26085)
    ELSE {}

\* REIWA_DATE_PATTERN at index i: U+4EE4 U+548C, an era year of one or two
\* digits, U+5E74, the month, U+6708, the day, U+65E5.
REIWA_DATE_PATTERN(t, i) ==
    IF MatchAt(<<20196, 21644>>, t, i)
    THEN UNION {IF /\ i + 2 + n <= Len(t)
                   /\ AllDigits(SubSeq(t, i + 2, i + 1 + n))
                   /\ t[i + 2 + n] = 24180
                THEN {2018 + ToInt(SubSeq(t, i + 2, i + 1 + n))}
                         \X MonthDayAt(t, i + 3 + n, {26376}, 26085)
                ELSE {} : n \in {1, 2}}
    ELSE {}

\* _format_date_components whose fallback writes the components as they are.
_format_date_components_unpadded(year, month, day) ==
    IF IsCalendarDate(year, month, day)
    THEN ZeroPad(NatToText(year), 4) \o T("-") \o ZeroPad(NatToText(month), 2)
             \o T("-") \o ZeroPad(NatToText(day), 2)
    ELSE IntToText(year) \o T("-") \o IntToText(month) \o T("-") \o IntToText(day)

\* datetime(year, month, day).strftime("%Y-%m-%d"), and for components that
\* are no calendar date f"{year:04d}-{month:02d}-{day:02d}"
_format_date_components(year, month, day) ==
    IF IsCalendarDate(year, month, day)
    THEN ZeroPad(NatToText(year), 4) \o T("-") \o ZeroPad(NatToText(month), 2)
             \o T("-") \o ZeroPad(NatToText(day), 2)
    ELSE ZeroPad(IntToText(year), 4) \o T("-") \o ZeroPad(IntToText(month), 2)
             \o T("-") \o ZeroPad(IntToText(day), 2)

\* _match_date: the leftmost match of the first pattern that matches, in the
\* order ISO, kanji, Reiwa; the components go through int().
_match_date(text) ==
    LET pattern(kind, i) ==
            CASE kind = 1 -> DATE_PATTERN(text, i)
              [] kind = 2 -> KANJI_DATE_PATTERN(text, i)
              [] OTHER -> REIWA_DATE_PATTERN(text, i)
        formatted(g) == Some(_format_date_components(g[1], g[2][1], g[2][2]))
        leftmost(kind, hits) ==
            IF hits = {} THEN None
            ELSE formatted(CHOOSE g \in pattern(kind, CHOOSE i \in hits :
                                                          \A j \in hits : i <= j) : TRUE)
        search(kind) == leftmost(kind, {i \in 1..Len(text) : pattern(kind, i) # {}})
    IN  FirstSome([kind \in 1..3 |-> search(kind)])

\* The value_predicate argument of _find_labeled_value: absent, "the text
\* holds a date", or "the text holds a number".
ValuePredicate(kind, text) ==
    CASE kind = "date" -> _match_date(text) # None
      [] kind = "numeric" -> _extract_numeric(text) # None
      [] OTHER -> TRUE

\* _find_labeled_value: the first line, in order, that yields a value, either
\* the segment after the keyword or the whole next line of the same page.
\* The result is None or Some(<<value, raw line>>).
_find_labeled_value(lines, keywords, exclude_keywords, allow_next_line, value_predicate) ==
    LET accepted(candidate, raw) ==
            IF candidate # <<>> /\ ValuePredicate(value_predicate, candidate)
            THEN Some(<<candidate, raw>>)
            ELSE None
        same_line(text, normalized) ==
            <<Strip(_extract_segment_after_keyword(normalized, Lower(normalized), keywords)),
              text>>
        next_line(index, next_text, candidate_next) ==
            IF /\ allow_next_line
               /\ index + 1 <= Len(lines)
               /\ lines[index + 1].page = lines[index].page
               /\ ~_line_contains_keyword(next_text, keywords)
               /\ ~_line_contains_keyword(candidate_next, exclude_keywords)
            THEN <<candidate_next, next_text>>
            ELSE <<<<>>, <<>>>>
        labelled(text) ==
            /\ _line_contains_keyword(text, keywords)
            /\ ~_line_contains_keyword(text, exclude_keywords)
        \* the candidates of line index: its own segment, then the next line
        candidate(index, text, part) ==
            IF ~labelled(text) THEN <<<<>>, <<>>>>
            ELSE IF part = 1 THEN same_line(text, _normalize_delimiters(text))
            ELSE next_line(index, lines[index + 1].text, Strip(lines[index + 1].text))
        checked(c) == accepted(c[1], c[2])
    IN  IF keywords = <<>> THEN None
        ELSE FirstSome([m \in 1..(2 * Len(lines)) |->
                           checked(candidate((m + 1) \div 2, lines[(m + 1) \div 2].text,
                                             2 - (m % 2)))])

\* FirstDatedLine that also reads the lines with an exclusion keyword.
FirstDatedLine_any(lines, keywords) ==
    LET dated(text, date) ==
            IF /\ date # None
               /\ (keywords = <<>> \/ _line_contains_keyword(text, keywords))
            THEN Some(<<date[1], text>>)
            ELSE None
    IN  FirstSome([k \in 1..Len(lines) |-> dated(lines[k].text, _match_date(lines[k].text))])

\* The first line, in order, that holds a date, is not excluded, and has one
\* of the keywords when keywords is not empty: Some(<<date, line>>) or None.
FirstDatedLine(lines, keywords) ==
    LET dated(text, date) ==
            IF /\ date # None
               /\ ~_line_contains_keyword(text, DATE_EXCLUDE_KEYWORDS)
               /\ (keywords = <<>> \/ _line_contains_keyword(text, keywords))
            THEN Some(<<date[1], text>>)
            ELSE None
    IN  FirstSome([k \in 1..Len(lines) |-> dated(lines[k].text, _match_date(lines[k].text))])

\* _extract_resolution_date: a labelled date, then a dated line that speaks
\* of a resolution or a meeting, then any dated line.
_extract_resolution_date(parsed) ==
    LET with_raw(date, raw) == IF date = None THEN None ELSE Some(<<date[1], raw>>)
        normalized(labeled) ==
            IF labeled = None THEN None
            ELSE with_raw(FirstSome([n \in 1..2 |-> _match_date(labeled[1][n])]),
                          labeled[1][2])
        dated(lines, tier) ==
            IF tier = 1
            THEN FirstSome([g \in 1..Len(DATE_LABEL_PRIORITY) |->
                               normalized(_find_labeled_value(lines, DATE_LABEL_PRIORITY[g],
                                                              DATE_EXCLUDE_KEYWORDS, TRUE, "date"))])
            ELSE FirstDatedLine(lines, IF tier = 3 THEN <<>>
                                       ELSE <<<<27770, 35696>>, <<21462, 32224, 24441, 20250>>,
                                              T("meeting"), T("resolved")>>)
        tiers(lines) == FirstSome([tier \in 1..3 |-> dated(lines, tier)])
    IN  tiers(_collect_lines(parsed))

\* _extract_dividend_amount: a labelled number that is not per share, then
\* the first line about dividends, not per share, that holds a number.
_extract_dividend_amount(parsed) ==
    LET one_share == <<49, 26666, 24403, 12383, 12426>>
        one_share_wide == <<65297, 26666, 24403, 12383, 12426>>
        with_raw(numeric, raw) == IF numeric = None THEN None ELSE Some(<<numeric[1], raw>>)
        normalized(labeled) ==
            IF labeled = None THEN None
            ELSE with_raw(FirstSome([n \in 1..2 |-> _extract_numeric(labeled[1][n])]),
                          labeled[1][2])
        fallback(text) ==
            IF /\ _line_contains_keyword(text, <<<<37197, 24403>>, T("dividend")>>)
               /\ ~_line_contains_keyword(text, <<T("per share"), one_share, one_share_wide>>)
            THEN with_raw(_extract_numeric(text), text)
            ELSE None
        amount(lines) ==
            OrElse(normalized(_find_labeled_value(
                                  lines, AMOUNT_LABEL_KEYWORDS,
                                  <<T("per share"), T("per-share"), one_share, one_share_wide>>,
                                  TRUE, "numeric")),
                   FirstSome([k \in 1..Len(lines) |-> fallback(lines[k].text)]))
    IN  amount(_collect_lines(parsed))

(***************************************************************************)
(* extraction.py: spans, title.  Title scores are in tenths; the code's    *)
(* floats order two candidates as their exact scores do whenever the exact *)
(* scores differ.                                                          *)
(***************************************************************************)

\* TextSpan(page, text, bbox); bbox is <<>> for None.
TextSpan(page, text, bbox) == [page |-> page, text |-> text, bbox |-> bbox]

\* A token without a box is shown in the band (0.05, 0.75, 0.95, 0.8).
_highlight_from_token(token, label) ==
    IF token.bbox = <<>> THEN HighlightSpan(token.page, <<5, 75, 95, 80>>, label)
    ELSE HighlightSpan(token.page, token.bbox, label)

\* _find_span_by_text: the first token whose text holds the needle, compared
\* in lower case, with or without its spaces.
_find_span_by_text(parsed, needle, label) ==
    LET normalized == Lower(needle)
        squeezed(t) == SelectSeq(t, LAMBDA c : c # 32)
        hit(k) ==
            LET token_text == Lower(parsed.tokens[k].text)
            IN  \/ Contains(normalized, token_text)
                \/ /\ squeezed(normalized) # <<>>
                   /\ Contains(squeezed(normalized), squeezed(token_text))
        found == {k \in 1..Len(parsed.tokens) : hit(k)}
    IN  IF needle = <<>> \/ found = {} THEN None
        ELSE Some(_highlight_from_token(
                      parsed.tokens[CHOOSE k \in found : \A j \in found : k <= j], label))

\* _field_with_span; raw_text is an Optional.
_field_with_span(value, parsed, label, confidence, raw_text) ==
    LET needle == IF raw_text # None /\ raw_text[1] # <<>> THEN raw_text[1] ELSE value
        span == _find_span_by_text(parsed, needle, label)
    IN  FieldValue(Some(value), Some(confidence), span)

StartsWith(t, p) == MatchAt(p, t, 1)

EndsWith(t, p) == Len(p) <= Len(t) /\ MatchAt(p, t, Len(t) - Len(p) + 1)

\* TITLE_PATTERN.match on a normalized line, letters in any case:
\* "Dividend Resolution" alone, a line that starts with U+914D U+5F53 U+6C7A
\* U+8B70 or with "Board Resolution", or one that starts with U+914D U+5F53
\* and ends with U+5831 U+544A U+66F8.
TITLE_PATTERN(line) ==
    \/ Lower(line) = T("dividend resolution")
    \/ StartsWith(line, <<37197, 24403, 27770, 35696>>)
    \/ StartsWith(Lower(line), T("board resolution"))
    \/ /\ Len(line) >= 5
       /\ StartsWith(line, <<37197, 24403>>)
       /\ EndsWith(line, <<22577, 21578, 26360>>)

\* _score_title_candidate, in tenths.
_score_title_candidate(text, page, line_index, from_metadata) ==
    LET any_in(keywords, t) == \E k \in 1..Len(keywords) : Contains(keywords[k], t)
        any_suffix(keywords, t) == \E k \in 1..Len(keywords) : EndsWith(t, keywords[k])
        IsUpper(c) == c \in 65..90
        \* re.findall(r"[A-Z]{2,}"): the runs of two or more capital letters
        uppercase_tokens(normalized) ==
            {i \in 1..(Len(normalized) - 1) :
                 /\ IsUpper(normalized[i])
                 /\ IsUpper(normalized[i + 1])
                 /\ (i = 1 \/ ~IsUpper(normalized[i - 1]))}
        position == IF from_metadata THEN 60
                    ELSE 0 - Max(0, page - 1) * 50
                           - (IF line_index < 8 THEN line_index ELSE 8) * 8
        total(normalized, lowered, has_keyword_en) ==
            120 + position
                + (IF any_in(TITLE_KEYWORDS_JP, normalized) \/ has_keyword_en THEN 45 ELSE 0)
                + (IF \/ any_suffix(TITLE_SUFFIX_JP, normalized)
                      \/ any_suffix(TITLE_SUFFIX_EN, lowered) THEN 50 ELSE 0)
                + (IF /\ Contains(<<37197, 24403>>, normalized)
                      /\ Contains(<<27770, 35696>>, normalized) THEN 25 ELSE 0)
                + (IF /\ Contains(T("dividend"), lowered)
                      /\ Contains(T("resolution"), lowered) THEN 25 ELSE 0)
                + (IF /\ Contains(T("minutes"), lowered)
                      /\ Contains(T("board"), lowered) THEN 20 ELSE 0)
                - (IF Cardinality(uppercase_tokens(normalized)) >= 2 /\ ~has_keyword_en
                   THEN 20 ELSE 0)
        gated(normalized, lowered, score) ==
            IF normalized = <<>> THEN 0
            ELSE IF Len(normalized) < 4 \/ Len(normalized) > 80 THEN 0
            ELSE IF any_in(TITLE_VERB_TERMS, lowered) THEN 0
            ELSE IF EndsWith(normalized, <<12290>>) \/ EndsWith(normalized, T(".")) THEN 0
            ELSE IF Contains(T("resolved to"), lowered) \/ Contains(T("hereby"), lowered) THEN 0
            ELSE IF score <= 0 THEN 0
            ELSE score
        scored(normalized, lowered) ==
            gated(normalized, lowered,
                  total(normalized, lowered, any_in(TITLE_KEYWORDS_EN, lowered)))
        lowering(normalized) == scored(normalized, Lower(normalized))
    IN  lowering(_normalize_delimiters(text))

\* _confidence_from_title_score without the ceiling of 0.95.
_confidence_from_title_score_unclamped(score) ==
    LET bounded == Max(0, IF score < 280 THEN score ELSE 280)
    IN  Max(385, 385 + 2 * bounded)

\* _confidence_from_title_score, in 1/700: 0.55 + bounded / 35 between 0.55
\* and 0.95, for a score in tenths.
_confidence_from_title_score(score) ==
    LET bounded == Max(0, IF score < 280 THEN score ELSE 280)
        raised == 385 + 2 * bounded
    IN  Max(385, IF raised < 665 THEN raised ELSE 665)

\* The candidate that sorting by (score, -len(value)) in reverse puts first:
\* the highest score, then the shortest value, then the earliest.
BestCandidate(candidates) ==
    candidates[CHOOSE i \in 1..Len(candidates) :
                   \A j \in 1..Len(candidates) :
                       \/ candidates[i].score > candidates[j].score
                       \/ /\ candidates[i].score = candidates[j].score
                          /\ \/ Len(candidates[i].value) < Len(candidates[j].value)
                             \/ /\ Len(candidates[i].value) = Len(candidates[j].value)
                                /\ i <= j]

\* _extract_title: the metadata title and the lines of the first two pages
\* are proposed in order; a proposal is registered when its value is not
\* empty, its score is positive and no registered value has the same letters.
_extract_title(parsed) ==
    LET scored(normalized_text, page, index, is_metadata) ==
            IF normalized_text = <<>> THEN 0
            ELSE IF ~is_metadata /\ TITLE_PATTERN(normalized_text)
            THEN 250 - (page - 1) * 50 - (IF index < 5 THEN index ELSE 5) * 10
            ELSE _score_title_candidate(normalized_text, page, index, is_metadata)
        proposal(normalized_text, raw, page, index, is_metadata) ==
            [value |-> _normalize_delimiters(normalized_text),
             raw |-> raw,
             score |-> scored(normalized_text, page, index, is_metadata)]
        from_line(line) ==
            proposal(_normalize_delimiters(line.text), line.text, line.page, line.index, FALSE)
        from_metadata(normalized_meta) ==
            proposal(normalized_meta, normalized_meta, 0, 0, TRUE)
        \* the metadata title is proposed first, then the lines
        proposed(lines, k) ==
            IF parsed.metadata.Title = None THEN from_line(lines[k])
            ELSE IF k = 1 THEN from_metadata(_normalize_delimiters(parsed.metadata.Title[1]))
            ELSE from_line(lines[k - 1])
        count(lines) == Len(lines) + (IF parsed.metadata.Title = None THEN 0 ELSE 1)
        ok(p) == p.value # <<>> /\ p.score > 0
        candidates(proposals) ==
            SelectSeq([k \in 1..Len(proposals) |->
                          [proposals[k] EXCEPT !.score =
                              IF /\ ok(proposals[k])
                                 /\ \A j \in 1..(k - 1) :
                                        ~(/\ ok(proposals[j])
                                          /\ Lower(proposals[j].value) = Lower(proposals[k].value))
                              THEN @ ELSE 0]],
                      LAMBDA candidate : candidate.score > 0)
        titled(best) ==
            FieldValue(Some(best.value), Some(_confidence_from_title_score(best.score)),
                       _find_span_by_text(
                           parsed,
                           IF _find_span_by_text(parsed, best.raw, "title") # None
                           THEN best.raw ELSE best.value,
                           "title"))
        fallback(first_page_line) ==
            FieldValue(Some(first_page_line), Some(350),
                       _find_span_by_text(parsed, first_page_line, "title"))
        chosen(ranked, first_lines) ==
            IF ranked # <<>> THEN titled(BestCandidate(ranked))
            ELSE IF first_lines # <<>>
            THEN fallback(_normalize_delimiters(first_lines[1].text))
            ELSE FieldValue_empty
        from(lines) ==
            chosen(candidates([k \in 1..count(lines) |-> proposed(lines, k)]),
                   SelectSeq(lines, LAMBDA line :
                       line.page = 1 /\ _normalize_delimiters(line.text) # <<>>))
    IN  from(SelectSeq(_collect_lines(parsed), LAMBDA line : line.page <= 2))

(***************************************************************************)
(* extraction.py: company name.  Company scores are in hundredths.         *)
(***************************************************************************)

\* unicodedata.normalize("NFKC", t) on the alphabet: a full-width form
\* becomes its ASCII character, the ideographic space a space, and the
\* parenthesized ideographs U+3231 and U+3232 the three characters "(x)".
NFKC(t) ==
    LET compat(c) ==
            IF c \in 65281..65374 THEN <<c - 65248>>
            ELSE IF c = 12288 THEN <<32>>
            ELSE IF c = 12849 THEN <<40, 26666, 41>>
            ELSE IF c = 12850 THEN <<40, 26377, 41>>
            ELSE <<c>>
    IN  Join([i \in 1..Len(t) |-> compat(t[i])], <<>>)

\* re.sub("(kw)+", "kw", t): a run of repeated kw becomes one kw.
RECURSIVE CollapseRepeats(_, _)
CollapseRepeats(t, kw) ==
    IF Contains(kw \o kw, t) THEN CollapseRepeats(Replace(t, kw \o kw, kw), kw) ELSE t

_normalize_company_value(value) ==
    LET kabushiki == <<26666, 24335, 20250, 31038>>
        yugen == <<26377, 38480, 20250, 31038>>
        godo == <<21512, 21516, 20250, 31038>>
        chars == {32, 44, 46, 59, 58, 12539}
        n1 == NFKC(value)
        n2 == Replace(Replace(Replace(n1, <<65288, 26666, 65289>>, kabushiki),
                              <<40, 26666, 41>>, kabushiki), <<12849>>, kabushiki)
        n3 == Replace(Replace(n2, <<65288, 26377, 65289>>, yugen), <<40, 26377, 41>>, yugen)
        n4 == RStripChars(LStripChars(n3, chars), chars)
        n5(stripped) == CollapseSpaces(stripped, 1, Len(stripped))
    IN  Strip(CollapseRepeats(CollapseRepeats(CollapseRepeats(n5(n4), kabushiki), yugen), godo))

\* str.split(delimiter) for a delimiter of one character
RECURSIVE Split(_, _)
Split(t, delimiter) ==
    IF Find(<<delimiter>>, t) = 0 THEN <<t>>
    ELSE <<SubSeq(t, 1, Find(<<delimiter>>, t) - 1)>>
             \o Split(SubSeq(t, Find(<<delimiter>>, t) + 1, Len(t)), delimiter)

\* The character classes of the company patterns: white space; a character
\* of a Japanese name, [^\s()] without the ideographic space, comma and
\* parentheses; a character of an English word in lower case, [a-z&'.-].
InClass(class, c) ==
    CASE class = "space" -> IsSpace(c)
      [] class = "name" ->
             ~IsSpace(c) /\ c \notin {12288, 12289, 65292, 40, 41, 65288, 65289}
      [] OTHER -> c \in 97..122 \/ c \in {38, 39, 46, 45}

\* The number of characters of a class from index k on, at most limit.
RunLength(t, k, limit, class) ==
    CHOOSE n \in 0..limit :
        /\ k + n - 1 <= Len(t)
        /\ \A j \in k..(k + n - 1) : InClass(class, t[j])
        /\ (n = limit \/ k + n > Len(t) \/ ~InClass(class, t[k + n]))

\* JAPANESE_COMPANY_PATTERN at index i, as the index after the match, or 0:
\* a legal-form word followed by 1 to 40 name characters, else 1 to 40 name
\* characters followed by a legal-form word, the longest such name.
JAPANESE_COMPANY_PATTERN(t, i) ==
    LET forms == {<<26666, 24335, 20250, 31038>>, <<26377, 38480, 20250, 31038>>,
                  <<21512, 21516, 20250, 31038>>, <<23398, 26657, 27861, 20154>>,
                  <<21307, 30274, 27861, 20154>>}
        form_at(k) == \E f \in forms : MatchAt(f, t, k)
        longest(before) ==
            IF before = {} THEN 0
            ELSE i + 4 + CHOOSE n \in before : \A m \in before : m <= n
        matched(after) ==
            IF form_at(i) /\ after >= 1 THEN i + 4 + after
            ELSE longest({n \in 1..RunLength(t, i, 40, "name") : form_at(i + n)})
    IN  matched(RunLength(t, i + 4, 40, "name"))

\* The length of the legal-form suffix of ENGLISH_COMPANY_PATTERN at index
\* p of the lower-cased text: the first alternative, in the pattern's order,
\* that matches there; 0 when none does.
EnglishSuffixAt(lowered, p) ==
    LET dot(n) == IF p + n <= Len(lowered) /\ lowered[p + n] = 46 THEN n + 1 ELSE n
        word(w, optional_dot) ==
            IF MatchAt(T(w), lowered, p) THEN (IF optional_dot THEN dot(Len(w)) ELSE Len(w))
            ELSE 0
        \* Pte\.?\s+Ltd\.? and Pty\.?\s+Ltd\.?
        ltd(q, gap) ==
            IF gap >= 1 /\ MatchAt(T("ltd"), lowered, q + gap)
            THEN (IF q + gap + 3 <= Len(lowered) /\ lowered[q + gap + 3] = 46
                  THEN q + gap + 4 - p ELSE q + gap + 3 - p)
            ELSE 0
        spaced(q) == ltd(q, RunLength(lowered, q, Len(lowered), "space"))
        followed(n) == IF n = 0 THEN 0 ELSE spaced(p + n)
        pair(w) == followed(word(w, TRUE))
        first_match(alternatives) ==
            IF \A k \in 1..Len(alternatives) : alternatives[k] = 0 THEN 0
            ELSE alternatives[CHOOSE k \in 1..Len(alternatives) :
                                  /\ alternatives[k] > 0
                                  /\ \A j \in 1..(k - 1) : alternatives[j] = 0]
    IN  first_match(
            <<word("co", TRUE), word("company", FALSE), word("corporation", FALSE),
              word("corp", TRUE), word("inc", TRUE), word("ltd", TRUE),
              word("limited", FALSE), word("holdings", FALSE), word("group", FALSE),
              word("llc", FALSE), word("plc", FALSE), word("gmbh", FALSE),
              word("s.a", TRUE), word("s.p.a", TRUE), pair("pte"), pair("pty"),
              word("ag", FALSE), word("bv", FALSE), word("nv", FALSE)>>)

\* The index after the words that trail a company match ending before
\* index p of the lower-cased text: white space and then a word that starts
\* with a letter, repeated greedily.
RECURSIVE TrailingWords(_, _)
TrailingWords(lowered, p) ==
    LET word_at(gap, q) ==
            IF gap >= 1 /\ q <= Len(lowered) /\ lowered[q] \in 97..122
            THEN TrailingWords(lowered, q + RunLength(lowered, q, Len(lowered), "word"))
            ELSE p
        spaced(gap) == word_at(gap, p + gap)
    IN  spaced(RunLength(lowered, p, Len(lowered), "space"))

\* ENGLISH_COMPANY_PATTERN at index i, letters in any case, as the index
\* after the match, or 0: up to five words, each a letter or "&" and then
\* letters, "&", "'", "." or "-" up to white space; a legal-form suffix; then
\* greedily further words that start with a letter.  The pattern prefers the
\* most words before the suffix.
ENGLISH_COMPANY_PATTERN(t, i) ==
    LET IsFirst(c) == c \in 97..122 \/ c = 38
        \* the index after a word at p and its white space, or 0
        spaced(q, gap) == IF gap >= 1 THEN q + gap ELSE 0
        word_end(lowered, q) == spaced(q, RunLength(lowered, q, Len(t), "space"))
        skip_word(lowered, p) ==
            IF p = 0 \/ p > Len(t) THEN 0
            ELSE IF ~IsFirst(lowered[p]) THEN 0
            ELSE word_end(lowered, p + RunLength(lowered, p, Len(t), "word"))
        \* the indexes after one more word
        one_more(lowered, after_words) ==
            Append(after_words, skip_word(lowered, after_words[Len(after_words)]))
        matched(lowered, after_words, suffixes) ==
            IF \A k \in 1..5 : suffixes[k] = 0 THEN 0
            ELSE TrailingWords(
                     lowered,
                     LET words == CHOOSE k \in 1..5 :
                                      suffixes[k] > 0 /\ \A j \in (k + 1)..5 : suffixes[j] = 0
                     IN  after_words[words] + suffixes[words])
        suffixed(lowered, after_words) ==
            matched(lowered, after_words,
                    [k \in 1..5 |-> IF after_words[k] = 0 THEN 0
                                    ELSE EnglishSuffixAt(lowered, after_words[k])])
        from(lowered) ==
            suffixed(lowered,
                     one_more(lowered, one_more(lowered, one_more(lowered,
                         one_more(lowered, <<skip_word(lowered, i)>>)))))
    IN  from(Lower(t))

\* pattern.finditer(t) for one of the two company patterns: the matches from
\* left to right without overlap.
RECURSIVE FindIter(_, _, _)
FindIter(t, from, pattern) ==
    LET match_end(i) == IF pattern = "japanese" THEN JAPANESE_COMPANY_PATTERN(t, i)
                        ELSE ENGLISH_COMPANY_PATTERN(t, i)
        match(start, stop) ==
            <<SubSeq(t, start, stop - 1)>> \o FindIter(t, stop, pattern)
        leftmost(ends, start) == match(start, ends[start])
        first(ends) ==
            IF \A i \in from..Len(t) : ends[i] = 0 THEN <<>>
            ELSE leftmost(ends, CHOOSE i \in from..Len(t) :
                                    ends[i] > 0 /\ \A j \in from..(i - 1) : ends[j] = 0)
    IN  first([i \in from..Len(t) |-> match_end(i)])

\* _generate_company_segments: the text, its parts around "/", "|", their
\* full-width forms and "\n", and the matches of the two company patterns;
\* each is stripped and normalized, empty ones and repetitions are dropped.
_generate_company_segments(text) ==
    LET entry(raw) == [value |-> _normalize_company_value(raw), raw |-> raw]
        key(e) == <<Lower(e.value), e.raw>>
        kept(entries) ==
            SelectSeq([k \in 1..Len(entries) |->
                          IF /\ entries[k].raw # <<>>
                             /\ entries[k].value # <<>>
                             /\ \A j \in 1..(k - 1) : key(entries[j]) # key(entries[k])
                          THEN entries[k]
                          ELSE [value |-> <<>>, raw |-> <<>>]],
                      LAMBDA e : e.raw # <<>>)
        stripped(raw_segments) ==
            kept([k \in 1..Len(raw_segments) |-> entry(Strip(raw_segments[k]))])
        found(pattern) == FindIter(text, 1, pattern)
    IN  stripped(<<text>> \o Split(text, 65295) \o Split(text, 47) \o Split(text, 124)
                     \o Split(text, 65372) \o Split(text, 10)
                     \o found("japanese") \o found("english"))

\* COMPANY_SUFFIX_PATTERN.search(text): one of the legal-form words occurs
\* somewhere in the text, letters in any case.
COMPANY_SUFFIX_PATTERN(text) ==
    LET lowered == Lower(text)
        words == {T("inc"), T("corp"), T("corporation"), T("company"), T("co"),
                  T("holdings"), T("limited"), T("ltd"), T("k.k."), T("llc"), T("gmbh"),
                  <<26666, 24335, 20250, 31038>>, <<26377, 38480, 20250, 31038>>,
                  <<21512, 21516, 20250, 31038>>, <<40, 26666, 41>>,
                  <<65288, 26666, 65289>>, <<12849>>}
    IN  \/ \E w \in words : Contains(w, lowered)
        \/ \E i \in 1..Len(lowered) :
               /\ MatchAt(T("kabushiki"), lowered, i)
               /\ RunLength(lowered, i + 9, Len(lowered), "space") >= 1
               /\ MatchAt(T("kaisha"), lowered,
                          i + 9 + RunLength(lowered, i + 9, Len(lowered), "space"))

\* _score_company_candidate, in hundredths.
_score_company_candidate(value) ==
    LET any_in(keywords, t) == \E k \in 1..Len(keywords) : Contains(keywords[k], t)
        IsLetter(c) == c \in 65..90 \/ c \in 97..122
        InToken(c) == IsWord(c) \/ c \in {38, 39, 46, 45}
        \* re.findall(r"[A-Za-z][\w&'.-]*"): one token in every run of token
        \* characters that has a letter, from the run's first letter on.
        tokens(candidate) ==
            {i \in 1..Len(candidate) :
                 /\ IsLetter(candidate[i])
                 /\ \A j \in 1..(i - 1) :
                        IsLetter(candidate[j]) =>
                            \E m \in (j + 1)..(i - 1) : ~InToken(candidate[m])}
        uppercase_tokens(candidate) == {i \in tokens(candidate) : candidate[i] \in 65..90}
        spaces(candidate) == Cardinality({i \in 1..Len(candidate) : candidate[i] = 32})
        score(candidate, text_lower, has_jp_keyword, has_en_keyword) ==
            IF candidate = <<>> THEN 0
            ELSE IF Len(candidate) < 2 \/ Len(candidate) > 80 THEN 0
            ELSE IF any_in(COMPANY_INVALID_TERMS, text_lower) THEN 0
            ELSE IF ~(has_jp_keyword \/ has_en_keyword) THEN 0
            ELSE IF has_en_keyword /\ Cardinality(uppercase_tokens(candidate)) < 2 THEN 0
            ELSE 100 + (IF has_jp_keyword THEN 500 ELSE 0)
                     + (IF has_en_keyword THEN 400 ELSE 0)
                     + (IF Len(candidate) <= 30 THEN 100 ELSE 0)
                     + (IF spaces(candidate) <= 5 THEN 50 ELSE 0)
        keyed(candidate, text_lower) ==
            score(candidate, text_lower, any_in(JP_COMPANY_KEYWORDS, candidate),
                  any_in(EN_COMPANY_KEYWORDS, text_lower))
        lowered(candidate) == keyed(candidate, Lower(candidate))
    IN  lowered(Strip(value))

\* _find_company_candidate_by_proximity: among the lines before the first
\* one with index above 8, the first with a legal-form word; else the
\* nearest usable line within three lines above an address line.
_find_company_candidate_by_proximity(lines) ==
    LET location == <<25152, 22312, 22320>>
        residence == <<20303, 25152>>
        top(late) == IF late = {} THEN Len(lines)
                     ELSE (CHOOSE k \in late : \A j \in late : k <= j) - 1
        by_suffix(last) ==
            FirstSome([k \in 1..last |->
                          IF COMPANY_SUFFIX_PATTERN(lines[k].text)
                          THEN Some(Strip(lines[k].text)) ELSE None])
        usable(candidate, japanese) ==
            /\ candidate # <<>>
            /\ IF japanese
               THEN ~Contains(location, candidate) /\ ~Contains(residence, candidate)
               ELSE ~StartsWith(Lower(candidate), T("address"))
        nearest(above) ==
            IF above = {} THEN 0 ELSE CHOOSE k \in above : \A j \in above : j <= k
        above(idx, japanese) ==
            nearest({k \in 1..(idx - 1) :
                        idx - k <= 3 /\ usable(Strip(lines[k].text), japanese)})
        english_line(text_lower) ==
            \/ StartsWith(text_lower, T("address"))
            \/ Contains(T("corporate number"), text_lower)
        japanese_line(text) == Contains(location, text) \/ Contains(residence, text)
        or_japanese(idx, english) ==
            IF english > 0 THEN english
            ELSE IF japanese_line(lines[idx].text) THEN above(idx, TRUE)
            ELSE 0
        address(idx) ==
            or_japanese(idx, IF english_line(Lower(lines[idx].text))
                             THEN above(idx, FALSE) ELSE 0)
        line_above(k) == IF k > 0 THEN Some(Strip(lines[k].text)) ELSE None
    IN  OrElse(by_suffix(top({k \in 1..Len(lines) : lines[k].index > 8})),
               FirstSome([idx \in 1..Len(lines) |-> line_above(address(idx))]))

\* register_candidate of _extract_company: the segments of raw_text with a
\* positive score, each with its score less the context weight.
CompanyCandidates(raw_text, context_weight) ==
    LET scored(segment) ==
            [score |-> _score_company_candidate(segment.value),
             value |-> segment.value,
             raw |-> segment.raw]
        weighted(positive) ==
            [k \in 1..Len(positive) |-> [positive[k] EXCEPT !.score = @ - context_weight]]
        registered(segments) ==
            weighted(SelectSeq([k \in 1..Len(segments) |-> scored(segments[k])],
                               LAMBDA c : c.score > 0))
    IN  registered(_generate_company_segments(raw_text))

\* register_candidate over the sources of _extract_company from index k on:
\* each source is a text with its context weight.
RECURSIVE LineCandidates(_, _)
LineCandidates(sources, k) ==
    IF k > Len(sources) THEN <<>>
    ELSE CompanyCandidates(sources[k].text, sources[k].weight)
             \o LineCandidates(sources, k + 1)

\* _extract_company: None or Some(<<value, raw>>)
_extract_company(parsed) ==
    LET source(text, weight) == [text |-> text, weight |-> weight]
        from_label(labeled) ==
            IF labeled = None THEN <<>>
            ELSE <<source(labeled[1][1], 0), source(labeled[1][2], 5)>>
        \* the lines before the first one whose index on its page is above 10
        early(lines) ==
            IF \A k \in 1..Len(lines) : lines[k].index <= 10 THEN Len(lines)
            ELSE (CHOOSE k \in 1..Len(lines) :
                      lines[k].index > 10 /\ \A j \in 1..(k - 1) : lines[j].index <= 10) - 1
        from_lines(lines) ==
            [k \in 1..early(lines) |->
                source(lines[k].text, lines[k].index * 10 + (lines[k].page - 1) * 50)]
        from_proximity(candidate) ==
            IF candidate = None \/ candidate = Some(<<>>) THEN <<>>
            ELSE <<source(candidate[1], 20)>>
        chosen(best) == Some(<<best.value, best.raw>>)
        ranked(candidates) ==
            IF candidates = <<>> THEN None ELSE chosen(BestCandidate(candidates))
        registered(lines) ==
            ranked(LineCandidates(
                       from_label(_find_labeled_value(lines, COMPANY_LABEL_KEYWORDS,
                                                      COMPANY_EXCLUDE_KEYWORDS, TRUE, "none"))
                           \o from_lines(lines)
                           \o from_proximity(_find_company_candidate_by_proximity(lines)),
                       1))
    IN  registered(_collect_lines(parsed))

\* RuleBasedVoucherExtractor.extract; confidences 0.88, 0.82, 0.78 in 1/700.
RuleBasedVoucherExtractor_extract(parsed) ==
    LET field(found, label, confidence) ==
            IF found = None THEN FieldValue_empty
            ELSE _field_with_span(found[1][1], parsed, label, confidence, Some(found[1][2]))
        data(title, company_name, date_field, amount_field) ==
            [title |-> title,
             company_name |-> company_name,
             resolution_date |-> date_field,
             dividend_amount |-> amount_field,
             source_highlights |-> title.source_spans \o company_name.source_spans
                                       \o date_field.source_spans \o amount_field.source_spans]
    IN  data(_extract_title(parsed),
             field(_extract_company(parsed), "company_name", 616),
             field(_extract_resolution_date(parsed), "resolution_date", 574),
             field(_extract_dividend_amount(parsed), "dividend_amount", 546))

(***************************************************************************)
(* SpecReport: a ValidationReport under register calls                     *)
(***************************************************************************)

RegisterKeys == {"title", "company_name", "resolution_date"}

RegisterMessages == {""}

Register(key, status, message) ==
    /\ report' = register(report, key, RequirementStatus(status, message))
    /\ lastRegister' = Some([key |-> key, status |-> status, before |-> report])
    /\ UNCHANGED <<validateVars, renderVars, analyzeVars, callVars, sessionVars>>

\* The script runs of one session that may be in progress together: the one
\* started by the refresh button and the one started by the analyze button.
ScriptRuns == {"refresh", "analyze"}

\* st.session_state of a new session: no result, no store; main sets
\* uploader_key to 0 before it draws the buttons.
SessionState_empty ==
    [analysis_result |-> None, analysis_store |-> None, uploader_key |-> 0]

\* The objects of the pipeline as they are constructed, before any call.
Constructed ==
    /\ report = ValidationReport_empty
    /\ lastRegister = None
    /\ vdata = ExtractedVoucherData_empty
    /\ vreport = None
    /\ rendered = None
    /\ collaborators = [pdf_ingestor |-> "PdfIngestor",
                        extractor |-> [class |-> "VoucherExtractor",
                                       _registry |-> [openai |-> "DummyLLMClient",
                                                      claude |-> "DummyLLMClient"]],
                        validator |-> "VoucherValidator",
                        highlight_renderer |-> "HighlightRenderer",
                        store |-> "InMemoryAnalysisStore"]
    /\ _store = <<>>
    /\ calls = 0
    /\ analysis = None
    /\ session_state = SessionState_empty
    /\ pc = [run \in ScriptRuns |-> "idle"]

InitReport ==
    /\ Constructed
    /\ call_args = None
    /\ call_result = None

NextReport ==
    \E key \in RegisterKeys, status \in RequirementState, message \in RegisterMessages :
        Register(key, status, message)

SpecReport == InitReport /\ [][NextReport]_vars

(***************************************************************************)
(* SpecValidate: VoucherValidator.validate on extracted data               *)
(***************************************************************************)

\* Values of a field that carries no format: unset, empty, blank, set.
PlainSamples == {None, Some(<<>>), Some(T(" ")), Some(T("ACME Holdings"))}

DateSamples ==
    {None, Some(<<>>)} \cup
    {Some(T(s)) : s \in {"2024-01-01", "2024-1-1", " 2024-01-01\n", "2024-02-29",
                         "2023-02-29", "2024-02-30", "2024-13-01", "2024-00-10",
                         "2024-04-31", "2024-12-31", "2024-01- 5", "2024-01-32",
                         "2024/01/01", "20240101", "2024-01-01x", "0000-01-01",
                         "24-01-01", "2024-01-001", "2024-011-1", "2024-1-", "abc"}}

AmountSamples ==
    {None, Some(<<>>)} \cup
    {Some(T(s)) : s \in {"1000000", "1,000,000", "36,000,000", "12.5", ".5", "5.",
                         ".", ",", "1,0,0", "-5", "+7", "1e3", "1E+3", "1e", "e3",
                         "NaN", "sNaN12", "Infinity", "inf", "1_000", " 42 ",
                         "1 000", "abc", "JPY 100", "1.2.3", "--1", "0x10"}}

Validate(data) ==
    /\ vreport = None
    /\ vdata' = data
    /\ vreport' = Some(validate(data))
    /\ UNCHANGED <<reportVars, renderVars, analyzeVars, callVars, sessionVars>>

InitValidate == InitReport

NextValidate ==
    \E title \in PlainSamples, company_name \in {None, Some(T("ACME Holdings"))},
       resolution_date \in DateSamples, dividend_amount \in AmountSamples :
        Validate([title |-> FieldValue_of(title),
                  company_name |-> FieldValue_of(company_name),
                  resolution_date |-> FieldValue_of(resolution_date),
                  dividend_amount |-> FieldValue_of(dividend_amount),
                  source_highlights |-> <<>>])

SpecValidate == InitValidate /\ [][NextValidate]_vars

(***************************************************************************)
(* SpecRender: HighlightRenderer.render, applied again to its own output   *)
(***************************************************************************)

\* How many times render is applied in a row.
MaxRenderPasses == 2

SAMPLE_DOC == T("Dividend Resolution\nCompany: ACME Holdings\nDate: 2024-01-01\nAmount: 1000000")

\* Original byte strings: empty, not a PDF, a text document, a PDF
\* signature followed by binary data, bytes that are not UTF-8.
RenderOriginals ==
    {<<>>, Utf8Encode(T("PDF")), Utf8Encode(SAMPLE_DOC),
     Utf8Encode(T("%PDF-1.4\n")) \o <<255, 0, 10>>, <<255, 254, 0>>}

RenderSpans ==
    {<<>>,
     <<HighlightSpan(1, <<10, 30, 90, 40>>, "company_name")>>,
     <<HighlightSpan(1, <<10, 65, 90, 72>>, "company_name"),
       HighlightSpan(2, <<5, 75, 95, 80>>, "resolution_date")>>,
     <<HighlightSpan(5, <<0, 0, 100, 20>>, "title")>>}

RenderDocuments ==
    {None,
     Some(ParsedDocument(<<>>, <<>>, 0)),
     Some(ParsedDocument(<<T("Line")>>, <<>>, 1)),
     Some(ParsedDocument(<<T("Line one\nHighlighted (line)"), T("Page two")>>, <<>>, 2))}

Render(original_pdf, spans, parsed_document) ==
    /\ rendered = None
    /\ rendered' = Some([first |-> original_pdf,
                         original_pdf |-> original_pdf,
                         spans |-> spans,
                         parsed_document |-> parsed_document,
                         output |-> render(original_pdf, spans, parsed_document),
                         passes |-> 1])
    /\ UNCHANGED <<reportVars, validateVars, analyzeVars, callVars, sessionVars>>

RenderAgain ==
    /\ rendered # None
    /\ rendered[1].passes < MaxRenderPasses
    /\ rendered' = Some([rendered[1] EXCEPT
                            !.original_pdf = rendered[1].output,
                            !.output = render(rendered[1].output, rendered[1].spans,
                                              rendered[1].parsed_document),
                            !.passes = @ + 1])
    /\ UNCHANGED <<reportVars, validateVars, analyzeVars, callVars, sessionVars>>

InitRender == InitReport

NextRender ==
    \/ \E original_pdf \in RenderOriginals, spans \in RenderSpans,
          parsed_document \in RenderDocuments :
           Render(original_pdf, spans, parsed_document)
    \/ RenderAgain

SpecRender == InitRender /\ [][NextRender]_vars

(***************************************************************************)
(* controller.py analyze_voucher with its collaborators: pdf_ingestor.py,  *)
(* llm/clients.py, extraction.py VoucherExtractor, persistence.py          *)
(***************************************************************************)

\* How many analyze_voucher calls a behaviour holds.
MaxCalls == 2

\* A document whose amount line carries a label the extractor knows.
PASS_DOC == T("Dividend Resolution\nCompany: ACME Holdings\nDate: 2024-01-01\nTotal Dividends: 1,000,000")

\* Uploaded files: the sample of the tests, a complete voucher after a byte
\* that is not UTF-8, and an empty upload.
Files == {Utf8Encode(SAMPLE_DOC), <<255>> \o Utf8Encode(PASS_DOC), <<>>}

\* A call either returns a value or raises an exception, kept as its str().
Return(value) == [raised |-> FALSE, value |-> value]

Raise(message) == [raised |-> TRUE, value |-> T(message)]

\* ParsedDocument.empty(): no pages, no tokens, no metadata.
ParsedDocument_empty ==
    [pages |-> <<>>, tokens |-> <<>>, metadata |-> [page_count |-> None, Title |-> None]]

\* The code point of the well-formed UTF-8 sequence that starts at index i
\* of the bytes b, None when no such sequence starts there.
Utf8At(b, i) ==
    LET cont(k) == i + k <= Len(b) /\ b[i + k] \in 128..191
        second(lo, hi) == i + 1 <= Len(b) /\ b[i + 1] \in lo..hi
    IN  IF b[i] < 128 THEN Some(b[i])
        ELSE IF b[i] \in 194..223 /\ cont(1)
        THEN Some((b[i] - 192) * 64 + (b[i + 1] - 128))
        ELSE IF /\ b[i] \in 224..239
                /\ second(IF b[i] = 224 THEN 160 ELSE 128, IF b[i] = 237 THEN 159 ELSE 191)
                /\ cont(2)
        THEN Some((b[i] - 224) * 4096 + (b[i + 1] - 128) * 64 + (b[i + 2] - 128))
        ELSE IF /\ b[i] \in 240..244
                /\ second(IF b[i] = 240 THEN 144 ELSE 128, IF b[i] = 244 THEN 143 ELSE 191)
                /\ cont(2)
                /\ cont(3)
        THEN Some((b[i] - 240) * 262144 + (b[i + 1] - 128) * 4096
                      + (b[i + 2] - 128) * 64 + (b[i + 3] - 128))
        ELSE None

\* bytes.decode("utf-8", errors="ignore"): the well-formed sequences are
\* decoded, every other byte is dropped.
Utf8DecodeIgnore(b) == Join([i \in 1..Len(b) |-> Utf8At(b, i)], <<>>)

\* parse that strips the page of a text upload.
parse_stripping(pdf_ingestor, file_bytes) ==
    CASE pdf_ingestor = "FailingPdfIngestor" -> Raise("bad pdf")
      [] pdf_ingestor = "PdfIngestor" /\ file_bytes = <<>> -> Raise("Empty file provided")
      [] /\ pdf_ingestor = "PdfIngestor"
         /\ file_bytes # <<>>
         /\ ~StartsWith(LStrip(file_bytes), T("%PDF")) ->
             Return(ParsedDocument(<<Strip(Utf8DecodeIgnore(file_bytes))>>, <<>>, 1))

\* pdf_ingestor.parse of the wired ingestor.  FailingPdfIngestor always
\* raises.  PdfIngestor.parse rejects an empty upload and reads bytes that
\* do not start with "%PDF" as one page of text; the files of this model
\* are of these two kinds, the PDF readers (lines 36 to 52) are not entered.
parse(pdf_ingestor, file_bytes) ==
    CASE pdf_ingestor = "FailingPdfIngestor" -> Raise("bad pdf")
      [] pdf_ingestor = "PdfIngestor" /\ file_bytes = <<>> -> Raise("Empty file provided")
      [] /\ pdf_ingestor = "PdfIngestor"
         /\ file_bytes # <<>>
         /\ ~StartsWith(LStrip(file_bytes), T("%PDF")) ->
             Return(ParsedDocument(<<Utf8DecodeIgnore(file_bytes)>>, <<>>, 1))

\* parse, tabulated over the ingestors and the files.
Parsing ==
    [pdf_ingestor \in {"PdfIngestor", "FailingPdfIngestor"}, file_bytes \in Files |->
        parse(pdf_ingestor, file_bytes)]

\* RuleBasedVoucherExtractor.extract, tabulated over the documents that
\* PdfIngestor.parse returns for the files.
RuleBasedExtraction ==
    [parsed \in {Parsing["PdfIngestor", file_bytes].value : file_bytes \in Files \ {<<>>}} |->
        RuleBasedVoucherExtractor_extract(parsed)]

\* The dict a remote client answers with when it answers: three strings, an
\* amount that is a number, and three highlight entries, the second
\* without page and bbox, the third with a bbox of three numbers.
LLM_RESPONSE ==
    [title |-> <<"str", T("Dividend Resolution")>>,
     company_name |-> <<"str", T("ACME Holdings")>>,
     resolution_date |-> <<"str", T("2024-01-01")>>,
     dividend_amount |-> <<"int", 1000000>>,
     highlights |->
         <<[page |-> Some(1), bbox |-> Some(<<10, 65, 90, 72>>), label |-> "company_name"],
           [page |-> None, bbox |-> None, label |-> "title"],
           [page |-> Some(1), bbox |-> Some(<<10, 55, 90>>), label |-> "resolution_date"]>>]

\* VoucherExtractor._from_llm_response: a field takes the response's value
\* when that is a str, else None; a highlight entry becomes a span, with
\* page 1 and bbox (0.0, 0.0, 1.0, 0.2) by default, when its bbox has four
\* numbers.
_from_llm_response(parsed, response) ==
    LET value_for(key) ==
            IF response[key][1] = "str" THEN Some(response[key][2]) ELSE None
        entries == response.highlights
        bbox(k) == IF entries[k].bbox = None THEN <<0, 0, 100, 20>> ELSE entries[k].bbox[1]
        page(k) == IF entries[k].page = None THEN 1 ELSE entries[k].page[1]
        spans == [k \in 1..Len(entries) |->
                     HighlightSpan(page(k), bbox(k), entries[k].label)]
    IN  [title |-> FieldValue_of(value_for("title")),
         company_name |-> FieldValue_of(value_for("company_name")),
         resolution_date |-> FieldValue_of(value_for("resolution_date")),
         dividend_amount |-> FieldValue_of(value_for("dividend_amount")),
         source_highlights |-> SelectSeq(spans, LAMBDA span : Len(span.bbox) = 4)]

\* client.extract(parsed) of a registered client that is no DummyLLMClient:
\* OpenAIClient and ClaudeClient raise NotImplementedError, FailingClient
\* raises a RuntimeError, RespondingClient returns a response.
client_extract(client) ==
    CASE client = "OpenAIClient" ->
             [raised |-> TRUE, class |-> "NotImplementedError",
              value |-> T("OpenAI client integration is pending implementation.")]
      [] client = "ClaudeClient" ->
             [raised |-> TRUE, class |-> "NotImplementedError",
              value |-> T("Claude client integration is pending implementation.")]
      [] client = "FailingClient" ->
             [raised |-> TRUE, class |-> "RuntimeError", value |-> T("client failure")]
      [] client = "RespondingClient" -> Return(LLM_RESPONSE)

\* An extract that turns every exception of the client into an
\* ExtractionError.
_extract_wraps_all(extractor, parsed, provider) ==
    LET client == extractor._registry[provider]
        response == client_extract(client)
        rule_based ==
            \/ extractor.class = "RuleBasedVoucherExtractor"
            \/ client \in {"unregistered", "DummyLLMClient"}
    IN  IF rule_based THEN Return(RuleBasedExtraction[parsed])
        ELSE IF response.raised
        THEN [raised |-> TRUE, class |-> "ExtractionError", value |-> response.value]
        ELSE Return(_from_llm_response(parsed, response.value))

\* The extract of the wired extractor.  RuleBasedVoucherExtractor ignores
\* the provider.  VoucherExtractor.extract asks its factory's _registry for
\* the provider's client: without one (KeyError), with a DummyLLMClient, and
\* with a client whose extract is not implemented (OpenAIClient,
\* ClaudeClient) the rule-based extractor answers; another exception of the
\* client becomes an ExtractionError; a response is converted.
_extract(extractor, parsed, provider) ==
    LET client == extractor._registry[provider]
        response == client_extract(client)
        rule_based ==
            \/ extractor.class = "RuleBasedVoucherExtractor"
            \/ client \in {"unregistered", "DummyLLMClient"}
            \/ (response.raised /\ response.class = "NotImplementedError")
    IN  IF rule_based THEN Return(RuleBasedExtraction[parsed])
        ELSE IF response.raised
        THEN [raised |-> TRUE, class |-> "ExtractionError", value |-> response.value]
        ELSE Return(_from_llm_response(parsed, response.value))

\* validator.validate of the wired validator; RaisingValidator always raises.
validator_validate(validator, extracted) ==
    IF validator = "VoucherValidator" THEN Return(validate(extracted))
    ELSE Raise("validator failure")

\* highlight_renderer.render of the wired renderer; DummyHighlightRenderer
\* always raises.
highlight_renderer_render(highlight_renderer, original_pdf, spans, parsed_document) ==
    IF highlight_renderer = "HighlightRenderer"
    THEN Return(render(original_pdf, spans, Some(parsed_document)))
    ELSE Raise("highlight failure")

\* highlight_renderer_render, tabulated over the renderers, the files that
\* PdfIngestor.parse reads, and the span lists of the extractors.
Rendering ==
    [highlight_renderer \in {"HighlightRenderer", "DummyHighlightRenderer"},
     original_pdf \in Files \ {<<>>},
     spans \in {<<>>, _from_llm_response(ParsedDocument_empty, LLM_RESPONSE).source_highlights} |->
        highlight_renderer_render(highlight_renderer, original_pdf, spans,
                                  Parsing["PdfIngestor", original_pdf].value)]

\* save that leaves a key the dict already holds with its old value.
save_keeps_first(store, _store_before, key, result) ==
    IF store = "FailingStore" THEN Raise("store failure")
    ELSE IF \E i \in 1..Len(_store_before) : _store_before[i].key = key
    THEN Return(_store_before)
    ELSE Return(Append(_store_before, [key |-> key, value |-> result.id]))

\* save that always adds a new entry and leaves the one already under the key.
save_appending(store, _store_before, key, result) ==
    IF store = "FailingStore" THEN Raise("store failure")
    ELSE Return(Append(_store_before, [key |-> key, value |-> result.id]))

\* store.save on the dict _store, which holds its values by reference: a
\* VoucherAnalysisResult is identified by its id.  InMemoryAnalysisStore
\* assigns the key; FailingStore raises and stores nothing.
save(store, _store_before, key, result) ==
    IF store = "FailingStore" THEN Raise("store failure")
    ELSE IF \E i \in 1..Len(_store_before) : _store_before[i].key = key
    THEN Return([i \in 1..Len(_store_before) |->
                    IF _store_before[i].key = key
                    THEN [key |-> key, value |-> result.id]
                    ELSE _store_before[i]])
    ELSE Return(Append(_store_before, [key |-> key, value |-> result.id]))

\* InMemoryAnalysisStore.load: the id of the stored result, None without one.
load(_store_now, key) ==
    IF \E i \in 1..Len(_store_now) : _store_now[i].key = key
    THEN Some(_store_now[CHOOSE i \in 1..Len(_store_now) : _store_now[i].key = key].value)
    ELSE None

\* VoucherAnalysisResult; id tells the objects apart.
VoucherAnalysisResult(id, parsed_document, extracted, validation, highlight_pdf, errors, warnings) ==
    [id |-> id,
     parsed_document |-> parsed_document,
     extracted |-> extracted,
     validation |-> validation,
     highlight_pdf |-> highlight_pdf,
     errors |-> errors,
     warnings |-> warnings,
     source_filename |-> <<>>]

\* The result of analyze_voucher when parse raised (lines 39 to 43).
parse_failed_drops_input(id, file_bytes, exc) ==
    VoucherAnalysisResult(id, ParsedDocument_empty, ExtractedVoucherData_empty,
                          ValidationReport_empty, <<>>,
                          <<T("PDF parsing failed: ") \o exc>>, <<>>)

parse_failed(id, file_bytes, exc) ==
    VoucherAnalysisResult(id, ParsedDocument_empty, ExtractedVoucherData_empty,
                          ValidationReport_empty, file_bytes,
                          <<T("PDF parsing failed: ") \o exc>>, <<>>)

\* The result of analyze_voucher when extraction raised (lines 47 to 50).
extract_failed_drops_document(id, parsed, exc) ==
    VoucherAnalysisResult(id, ParsedDocument_empty, ExtractedVoucherData_empty,
                          ValidationReport_empty, <<>>,
                          <<T("Extraction failed: ") \o exc>>, <<>>)

extract_failed(id, parsed, exc) ==
    VoucherAnalysisResult(id, parsed, ExtractedVoucherData_empty,
                          ValidationReport_empty, <<>>,
                          <<T("Extraction failed: ") \o exc>>, <<>>)

\* highlight_pdf and warnings after the render step (lines 54 to 63).
highlight_drops_input(file_bytes, rendering) ==
    IF rendering.raised
    THEN [highlight_pdf |-> <<>>,
          warnings |-> <<T("highlight rendering skipped: ") \o rendering.value>>]
    ELSE [highlight_pdf |-> rendering.value, warnings |-> <<>>]

highlight(file_bytes, rendering) ==
    IF rendering.raised
    THEN [highlight_pdf |-> file_bytes,
          warnings |-> <<T("highlight rendering skipped: ") \o rendering.value>>]
    ELSE [highlight_pdf |-> rendering.value, warnings |-> <<>>]

\* analyze_voucher that goes on to validate after an extraction failure.
analyze_voucher_extract_failure_ignored(file_bytes, provider, pdf_ingestor, extractor, validator, highlight_renderer, store, session_key, _store_before, id) ==
    LET Stage(name, outcome) == [stage |-> name, raised |-> outcome.raised]
        Call(log, outcome, _store_after) ==
            [log |-> log, outcome |-> outcome, contents |-> _store_after]
        \* lines 73 to 76
        after_save(log, result, saving) ==
            IF saving.raised THEN Call(log \o <<Stage("save", saving)>>, saving, _store_before)
            ELSE Call(log \o <<Stage("save", saving)>>, Return(result), saving.value)
        finish(log, result) ==
            IF store = None \/ session_key = None \/ session_key = Some(<<>>)
            THEN Call(log, Return(result), _store_before)
            ELSE after_save(log, result, save(store[1], _store_before, session_key[1], result))
        \* lines 65 to 71
        assemble(log, parsed, extracted, validation, shown) ==
            finish(log, VoucherAnalysisResult(id, parsed, extracted, validation.value,
                                              shown.highlight_pdf, <<>>, shown.warnings))
        \* lines 54 to 63
        after_render(log, parsed, extracted, validation, rendering) ==
            assemble(log \o <<Stage("render", rendering)>>, parsed, extracted, validation,
                     highlight(file_bytes, rendering))
        \* line 52
        after_validate(log, parsed, extracted, validation) ==
            IF validation.raised
            THEN Call(log \o <<Stage("validate", validation)>>, validation, _store_before)
            ELSE after_render(log \o <<Stage("validate", validation)>>, parsed, extracted,
                              validation,
                              Rendering[highlight_renderer, file_bytes,
                                        extracted.source_highlights])
        \* lines 45 to 50
        after_extract(log, parsed, extraction) ==
            IF extraction.raised
            THEN after_validate(log \o <<Stage("extract", extraction)>>, parsed,
                                ExtractedVoucherData_empty,
                                validator_validate(validator, ExtractedVoucherData_empty))
            ELSE after_validate(log \o <<Stage("extract", extraction)>>, parsed,
                                extraction.value,
                                validator_validate(validator, extraction.value))
        \* lines 37 to 43
        after_parse(parsing) ==
            IF parsing.raised
            THEN Call(<<Stage("parse", parsing)>>,
                      Return(parse_failed(id, file_bytes, parsing.value)), _store_before)
            ELSE after_extract(<<Stage("parse", parsing)>>, parsing.value,
                               _extract(extractor, parsing.value, provider))
    IN  after_parse(Parsing[pdf_ingestor, file_bytes])

\* analyze_voucher: what the call does to the store's dict, the stages it
\* invoked with whether each raised, and its outcome.  store is None or the
\* wired store, session_key None or a str; id is the identity of the
\* VoucherAnalysisResult the call creates.
analyze_voucher(file_bytes, provider, pdf_ingestor, extractor, validator, highlight_renderer, store, session_key, _store_before, id) ==
    LET Stage(name, outcome) == [stage |-> name, raised |-> outcome.raised]
        Call(log, outcome, _store_after) ==
            [log |-> log, outcome |-> outcome, contents |-> _store_after]
        \* lines 73 to 76
        after_save(log, result, saving) ==
            IF saving.raised THEN Call(log \o <<Stage("save", saving)>>, saving, _store_before)
            ELSE Call(log \o <<Stage("save", saving)>>, Return(result), saving.value)
        finish(log, result) ==
            IF store = None \/ session_key = None \/ session_key = Some(<<>>)
            THEN Call(log, Return(result), _store_before)
            ELSE after_save(log, result, save(store[1], _store_before, session_key[1], result))
        \* lines 65 to 71
        assemble(log, parsed, extracted, validation, shown) ==
            finish(log, VoucherAnalysisResult(id, parsed, extracted, validation.value,
                                              shown.highlight_pdf, <<>>, shown.warnings))
        \* lines 54 to 63
        after_render(log, parsed, extracted, validation, rendering) ==
            assemble(log \o <<Stage("render", rendering)>>, parsed, extracted, validation,
                     highlight(file_bytes, rendering))
        \* line 52
        after_validate(log, parsed, extracted, validation) ==
            IF validation.raised
            THEN Call(log \o <<Stage("validate", validation)>>, validation, _store_before)
            ELSE after_render(log \o <<Stage("validate", validation)>>, parsed, extracted,
                              validation,
                              Rendering[highlight_renderer, file_bytes,
                                        extracted.source_highlights])
        \* lines 45 to 50
        after_extract(log, parsed, extraction) ==
            IF extraction.raised
            THEN Call(log \o <<Stage("extract", extraction)>>,
                      Return(extract_failed(id, parsed, extraction.value)), _store_before)
            ELSE after_validate(log \o <<Stage("extract", extraction)>>, parsed,
                                extraction.value,
                                validator_validate(validator, extraction.value))
        \* lines 37 to 43
        after_parse(parsing) ==
            IF parsing.raised
            THEN Call(<<Stage("parse", parsing)>>,
                      Return(parse_failed(id, file_bytes, parsing.value)), _store_before)
            ELSE after_extract(<<Stage("parse", parsing)>>, parsing.value,
                               _extract(extractor, parsing.value, provider))
    IN  after_parse(Parsing[pdf_ingestor, file_bytes])

(***************************************************************************)
(* SpecAnalyze: analyze_voucher calls on collaborators wired at start      *)
(***************************************************************************)

\* ProviderType
Providers == {"openai", "claude"}

\* The _registry of an LLMClientFactory: build_default with the Anthropic
\* key only, and two factories with clients registered by hand.
Registries ==
    {[openai |-> "DummyLLMClient", claude |-> "ClaudeClient"],
     [openai |-> "RespondingClient", claude |-> "FailingClient"],
     [openai |-> "OpenAIClient", claude |-> "unregistered"]}

\* The collaborators a caller hands to analyze_voucher; without an
\* extractor analyze_voucher makes a VoucherExtractor.
Wirings ==
    [pdf_ingestor : {"PdfIngestor", "FailingPdfIngestor"},
     extractor : {[class |-> "RuleBasedVoucherExtractor",
                   _registry |-> [openai |-> "unregistered", claude |-> "unregistered"]]}
                     \cup {[class |-> "VoucherExtractor", _registry |-> r] : r \in Registries},
     validator : {"VoucherValidator", "RaisingValidator"},
     highlight_renderer : {"HighlightRenderer", "DummyHighlightRenderer"},
     store : {"InMemoryAnalysisStore", "FailingStore"}]

\* One call of analyze_voucher, with or without the store, and what it did.
AnalyzeVoucher(file_bytes, provider, store, session_key) ==
    /\ calls < MaxCalls
    /\ LET record(call) ==
               /\ _store' = call.contents
               /\ analysis' = Some([file_bytes |-> file_bytes,
                                    provider |-> provider,
                                    store |-> store,
                                    session_key |-> session_key,
                                    _store_before |-> _store,
                                    log |-> call.log,
                                    raised |-> call.outcome.raised,
                                    exception |-> IF call.outcome.raised
                                                  THEN Some(call.outcome.value) ELSE None,
                                    result |-> IF call.outcome.raised
                                               THEN None ELSE Some(call.outcome.value)])
       IN  record(analyze_voucher(file_bytes, provider, collaborators.pdf_ingestor,
                                  collaborators.extractor, collaborators.validator,
                                  collaborators.highlight_renderer, store, session_key,
                                  _store, calls + 1))
    /\ calls' = calls + 1
    /\ UNCHANGED <<collaborators, reportVars, validateVars, renderVars, callVars, sessionVars>>

InitAnalyze ==
    /\ report = ValidationReport_empty
    /\ lastRegister = None
    /\ vdata = ExtractedVoucherData_empty
    /\ vreport = None
    /\ rendered = None
    /\ collaborators \in Wirings
    /\ _store = <<>>
    /\ calls = 0
    /\ analysis = None
    /\ session_state = SessionState_empty
    /\ pc = [run \in ScriptRuns |-> "idle"]
    /\ call_args = None
    /\ call_result = None

NextAnalyze ==
    \E file_bytes \in Files, provider \in Providers,
       store \in {None, Some(collaborators.store)},
       session_key \in {None, Some(<<>>), Some(T("sess-1"))} :
        AnalyzeVoucher(file_bytes, provider, store, session_key)

SpecAnalyze == InitAnalyze /\ [][NextAnalyze]_vars

(***************************************************************************)
(* SpecMatchDate: _match_date on one date in one of its notations          *)
(***************************************************************************)

\* The notations of a date: DATE_PATTERN with "-" or with "/",
\* KANJI_DATE_PATTERN, and REIWA_DATE_PATTERN.
DateNotations == {"hyphen", "slash", "kanji", "reiwa"}

\* Years of the Reiwa era, a leap year among them.
DateYears == {2019, 2023, 2024}

\* Months and days, some of them outside the calendar.
DateMonths == {0, 1, 2, 4, 9, 11, 12, 13}

DateDays == {0, 1, 9, 15, 28, 29, 30, 31, 32}

\* The text of a date in a notation; month and day are written with two
\* digits when padded, else as they are.
DateText(date) ==
    LET two(n) == IF date.padded THEN ZeroPad(NatToText(n), 2) ELSE NatToText(n)
        separated(sep) ==
            NatToText(date.year) \o sep \o two(date.month) \o sep \o two(date.day)
        kanji(year_text) ==
            year_text \o <<24180>> \o two(date.month) \o <<26376>> \o two(date.day)
                \o <<26085>>
    IN  CASE date.notation = "hyphen" -> separated(T("-"))
          [] date.notation = "slash" -> separated(T("/"))
          [] date.notation = "kanji" -> kanji(NatToText(date.year))
          [] OTHER -> kanji(<<20196, 21644>> \o NatToText(date.year - 2018))

\* The call _match_date(text) for the date of call_args.
MatchDate ==
    /\ call_result = None
    /\ call_result' = Some(_match_date(DateText(call_args[1])))
    /\ UNCHANGED <<call_args, reportVars, validateVars, renderVars, analyzeVars, sessionVars>>

InitMatchDate ==
    /\ Constructed
    /\ call_args \in {Some(date) : date \in [notation : DateNotations, year : DateYears,
                                             month : DateMonths, day : DateDays,
                                             padded : BOOLEAN]}
    /\ call_result = None

NextMatchDate == MatchDate

SpecMatchDate == InitMatchDate /\ [][NextMatchDate]_vars

(***************************************************************************)
(* SpecDividendAmount: _extract_dividend_amount on a page of lines          *)
(***************************************************************************)

\* How many lines a page of a line specification holds at most.
MaxLines == 3

\* The sequences of at most n different elements of the sequence pool.
Orderings(pool, n) ==
    {[i \in 1..Len(order) |-> pool[order[i]]] :
        order \in {o \in UNION {[1..m -> 1..Len(pool)] : m \in 0..n} :
                      \A i, j \in 1..Len(o) : i # j => o[i] # o[j]}}

\* A document of one page that holds the lines, and no tokens.
PageOf(page_lines) == ParsedDocument(<<Join(page_lines, T("\n"))>>, <<>>, 1)

\* The amount line of the realistic document of the tests: a label, the
\* total, then the figure per share.
TOTAL_WITH_PER_SHARE == T("Total Amount of Dividends: JPY 36,000,000 (JPY 18 per share x 2,000,000 shares)")

\* The lines of the pages: the amount line, a sentence that mentions
\* dividends next to a date, a company name, a total without a figure per
\* share, and a figure per share alone.
AmountLines ==
    <<TOTAL_WITH_PER_SHARE,
      T("On 2025-03-30 the Company resolved to distribute dividends."),
      T("Acme Holdings K.K."),
      T("Total Dividends: 1,000,000"),
      T("Dividend per share: JPY 18")>>

\* The call _extract_dividend_amount(parsed) for the page of call_args.
ExtractDividendAmount ==
    /\ call_result = None
    /\ call_result' = Some(_extract_dividend_amount(PageOf(call_args[1])))
    /\ UNCHANGED <<call_args, reportVars, validateVars, renderVars, analyzeVars, sessionVars>>

InitDividendAmount ==
    /\ Constructed
    /\ call_args \in {Some(page_lines) : page_lines \in Orderings(AmountLines, MaxLines)}
    /\ call_result = None

NextDividendAmount == ExtractDividendAmount

SpecDividendAmount == InitDividendAmount /\ [][NextDividendAmount]_vars

(***************************************************************************)
(* SpecCompany: _extract_company on a page of lines                        *)
(***************************************************************************)

\* A sentence with action vocabulary that mentions a company.
NARRATIVE_SENTENCE == T("the Company resolved to distribute dividends")

\* The lines of the pages: two company names with a corporate suffix, the
\* sentence, a title and an address.
CompanyLines ==
    <<T("Acme Holdings K.K."),
      T("ABC Co., Ltd."),
      NARRATIVE_SENTENCE,
      T("Dividend Resolution"),
      T("Address: Tokyo")>>

\* The call _extract_company(parsed) for the page of call_args.
ExtractCompany ==
    /\ call_result = None
    /\ call_result' = Some(_extract_company(PageOf(call_args[1])))
    /\ UNCHANGED <<call_args, reportVars, validateVars, renderVars, analyzeVars, sessionVars>>

InitCompany ==
    /\ Constructed
    /\ call_args \in {Some(page_lines) : page_lines \in Orderings(CompanyLines, MaxLines)}
    /\ call_result = None

NextCompany == ExtractCompany

SpecCompany == InitCompany /\ [][NextCompany]_vars

(***************************************************************************)
(* SpecResolutionDate: _extract_resolution_date on a page of lines         *)
(***************************************************************************)

\* The lines of the pages: a resolution-date label with its date, the label
\* alone, a sentence about a meeting with a date, a payment date, a date
\* alone, and the record-date and resolution-date lines of the Japanese
\* test document (U+914D U+5F53 U+57FA U+6E96 U+65E5 and U+914D U+5F53
\* U+6C7A U+8B70 U+65E5, a full-width colon, and a kanji date).
DateLines ==
    <<T("Resolution Date: 2024-03-05"),
      T("Resolution Date:"),
      T("Board meeting held on 2024-02-10"),
      T("Payment date: 2024-02-15"),
      T("2024/4/1"),
      <<37197, 24403, 22522, 28310, 26085, 65306>> \o T("2024") \o <<24180>> \o T("03")
          \o <<26376>> \o T("31") \o <<26085>>,
      <<37197, 24403, 27770, 35696, 26085, 65306>> \o T("2024") \o <<24180>> \o T("04")
          \o <<26376>> \o T("15") \o <<26085>>>>

\* The call _extract_resolution_date(parsed) for the page of call_args.
ExtractResolutionDate ==
    /\ call_result = None
    /\ call_result' = Some(_extract_resolution_date(PageOf(call_args[1])))
    /\ UNCHANGED <<call_args, reportVars, validateVars, renderVars, analyzeVars, sessionVars>>

InitResolutionDate ==
    /\ Constructed
    /\ call_args \in {Some(page_lines) : page_lines \in Orderings(DateLines, MaxLines)}
    /\ call_result = None

NextResolutionDate == ExtractResolutionDate

SpecResolutionDate == InitResolutionDate /\ [][NextResolutionDate]_vars

(***************************************************************************)
(* SpecExtractor: VoucherExtractor.extract with the clients of a factory   *)
(***************************************************************************)

\* The _registry of an LLMClientFactory, per provider: no client, the
\* clients build_default registers without and with an API key, and two
\* clients registered by hand.
ExtractorRegistries ==
    [openai : {"unregistered", "DummyLLMClient", "OpenAIClient", "FailingClient",
               "RespondingClient"},
     claude : {"unregistered", "DummyLLMClient", "ClaudeClient", "FailingClient",
               "RespondingClient"}]

\* The call VoucherExtractor(llm_factory).extract(parsed, provider) for the
\* factory, the document and the provider of call_args.
VoucherExtractorExtract ==
    /\ call_result = None
    /\ call_result' = Some(_extract([class |-> "VoucherExtractor",
                                     _registry |-> call_args[1]._registry],
                                    call_args[1].parsed, call_args[1].provider))
    /\ UNCHANGED <<call_args, reportVars, validateVars, renderVars, analyzeVars, sessionVars>>

InitExtractor ==
    /\ Constructed
    /\ call_args \in {Some(arguments) :
                         arguments \in [_registry : ExtractorRegistries,
                                        parsed : DOMAIN RuleBasedExtraction,
                                        provider : Providers]}
    /\ call_result = None

NextExtractor == VoucherExtractorExtract

SpecExtractor == InitExtractor /\ [][NextExtractor]_vars

(***************************************************************************)
(* SpecStore: the methods of one InMemoryAnalysisStore, called in any      *)
(* order                                                                   *)
(***************************************************************************)

\* The number of calls made on the store.
MaxOps == 4

\* The keys and the results (by id) the calls use.
StoreKeys == {T("a"), T("b")}

ResultIds == {1, 2}

\* InMemoryAnalysisStore.delete: dict.pop(key, None), the other entries keep
\* their order.
delete(_store_now, key) ==
    SelectSeq(_store_now, LAMBDA entry : entry.key # key)

\* InMemoryAnalysisStore.clear: dict.clear().
clear(_store_now) == <<>>

\* InMemoryAnalysisStore.keys: the keys of the dict in insertion order.
keys(_store_now) ==
    [i \in 1..Len(_store_now) |-> _store_now[i].key]

\* One call on the store: call_args is the log of the calls made so far,
\* call_result the value the last call returned and the dict it found.
StoreCall(op, key, result, returned, _store_after) ==
    /\ Len(call_args) < MaxOps
    /\ call_args' = Append(call_args, [op |-> op, key |-> key, result |-> result])
    /\ call_result' = Some([outcome |-> returned, _store_before |-> _store])
    /\ _store' = _store_after
    /\ UNCHANGED <<reportVars, validateVars, renderVars, collaborators, calls, analysis, sessionVars>>

StoreSave ==
    \E key \in StoreKeys, id \in ResultIds :
        LET saving == save("InMemoryAnalysisStore", _store, key, [id |-> id])
        IN  StoreCall("save", Some(key), Some(id), Return(None), saving.value)

StoreLoad ==
    \E key \in StoreKeys :
        StoreCall("load", Some(key), None, Return(load(_store, key)), _store)

StoreDelete ==
    \E key \in StoreKeys :
        StoreCall("delete", Some(key), None, Return(None), delete(_store, key))

StoreClear ==
    StoreCall("clear", None, None, Return(None), clear(_store))

StoreListKeys ==
    StoreCall("keys", None, None, Return(keys(_store)), _store)

\* InMemoryAnalysisStore.__init__: an empty dict, no call made.
InitStore ==
    /\ Constructed
    /\ call_args = <<>>
    /\ call_result = None

NextStore ==
    \/ StoreSave
    \/ StoreLoad
    \/ StoreDelete
    \/ StoreClear
    \/ StoreListKeys

SpecStore == InitStore /\ [][NextStore]_vars

(***************************************************************************)
(* SpecSession: the refresh and the analyze handlers of main running       *)
(* against the store of one session, statement by statement                *)
(***************************************************************************)

\* The number of times the refresh button is handled.
MaxRefreshes == 2

\* session_key of the analyze handler.
LATEST == T("latest")

Goto(run, statement) == pc' = [pc EXCEPT ![run] = statement]

\* if "analysis_result" in st.session_state: st.session_state.pop(...)
RefreshPopResult ==
    /\ pc["refresh"] = "idle"
    /\ session_state.uploader_key < MaxRefreshes
    /\ session_state' = [session_state EXCEPT !.analysis_result = None]
    /\ Goto("refresh", "clear")
    /\ UNCHANGED <<reportVars, validateVars, renderVars, analyzeVars, callVars>>

\* if "analysis_store" in st.session_state: store.clear()
RefreshClearStore ==
    /\ pc["refresh"] = "clear"
    /\ _store' = IF session_state.analysis_store # None THEN clear(_store) ELSE _store
    /\ Goto("refresh", "rerun")
    /\ UNCHANGED <<reportVars, validateVars, renderVars, collaborators, calls, analysis,
                   callVars, session_state>>

\* st.session_state["uploader_key"] += 1; st.experimental_rerun()
RefreshRerun ==
    /\ pc["refresh"] = "rerun"
    /\ session_state' = [session_state EXCEPT !.uploader_key = @ + 1]
    /\ Goto("refresh", "idle")
    /\ UNCHANGED <<reportVars, validateVars, renderVars, analyzeVars, callVars>>

\* validate_inputs finds a .pdf upload; store = get_session_store(), which
\* puts a new InMemoryAnalysisStore into the session when it has none.
AnalyzeGetStore ==
    /\ pc["analyze"] = "idle"
    /\ calls < MaxCalls
    /\ session_state' = [session_state EXCEPT
                            !.analysis_store = OrElse(@, Some(collaborators.store))]
    /\ Goto("analyze", "call")
    /\ UNCHANGED <<reportVars, validateVars, renderVars, analyzeVars, callVars>>

\* result = analyze_voucher(file_bytes, provider=provider_label, ...,
\* store=store, session_key="latest"): the stages work on values of the run;
\* store.save is its one statement on the store of the session.  call_args
\* keeps, for each analysis, its result and whether it came to save it.
AnalyzeCall ==
    /\ pc["analyze"] = "call"
    /\ \E file_bytes \in Files, provider \in Providers :
        LET record(call) ==
                /\ _store' = call.contents
                /\ call_args' = Append(call_args,
                                       [id |-> calls + 1,
                                        saved |-> \E i \in 1..Len(call.log) :
                                                     call.log[i] = [stage |-> "save",
                                                                    raised |-> FALSE]])
                /\ analysis' = Some([file_bytes |-> file_bytes,
                                     provider |-> provider,
                                     store |-> session_state.analysis_store,
                                     session_key |-> Some(LATEST),
                                     _store_before |-> _store,
                                     log |-> call.log,
                                     raised |-> call.outcome.raised,
                                     exception |-> IF call.outcome.raised
                                                   THEN Some(call.outcome.value) ELSE None,
                                     result |-> IF call.outcome.raised
                                                THEN None ELSE Some(call.outcome.value)])
        IN  record(analyze_voucher(file_bytes, provider, collaborators.pdf_ingestor,
                                   collaborators.extractor, collaborators.validator,
                                   collaborators.highlight_renderer,
                                   session_state.analysis_store, Some(LATEST),
                                   _store, calls + 1))
    /\ calls' = calls + 1
    /\ Goto("analyze", "assign")
    /\ UNCHANGED <<reportVars, validateVars, renderVars, collaborators, call_result,
                   session_state>>

\* st.session_state["analysis_result"] = result
AnalyzeAssign ==
    /\ pc["analyze"] = "assign"
    /\ session_state' = [session_state EXCEPT
                            !.analysis_result = Some(analysis[1].result[1].id)]
    /\ Goto("analyze", "idle")
    /\ UNCHANGED <<reportVars, validateVars, renderVars, analyzeVars, callVars>>

InitSession ==
    /\ Constructed
    /\ call_args = None
    /\ call_result = None

NextSession ==
    \/ RefreshPopResult
    \/ RefreshClearStore
    \/ RefreshRerun
    \/ AnalyzeGetStore
    \/ AnalyzeCall
    \/ AnalyzeAssign

SpecSession == InitSession /\ [][NextSession]_vars

(***************************************************************************)
(* SpecParse: PdfIngestor.parse on short byte strings                      *)
(***************************************************************************)

\* The longest upload.
MaxBytes == 5

\* The bytes of the uploads: "%", "P", "D", "F", a space, and the two bytes
\* of U+00E9 in UTF-8, each of which alone is not well-formed.
UploadBytes == {37, 80, 68, 70, 32, 195, 169}

\* What a PDF reader makes of an upload: no page, or one page of text.
PageExtractions == {<<>>, <<[text |-> T("a"), spans |-> <<>>]>>}

\* PdfIngestor.parse with the PDF readers as they answer.
\* _extract_with_pymupdf returns None (no library, or open raised) or the
\* list of pages, or raises when get_text of a page raises, which is outside
\* its try; _extract_with_pdfplumber returns None or a list that is not
\* empty; _extract_with_fallback returns a list, or raises when its reader
\* does.  consulted lists the readers called.
PdfIngestor_parse(file_bytes, pymupdf, pdfplumber, fallback) ==
    IF file_bytes = <<>> \/ ~StartsWith(LStrip(file_bytes), T("%PDF"))
    THEN [consulted |-> <<>>, outcome |-> parse("PdfIngestor", file_bytes)]
    ELSE LET document(extraction) ==
                 IF extraction = <<>> THEN Raise("PDF parsing produced no pages")
                 ELSE Return(ParsedDocument(
                                 [i \in 1..Len(extraction) |-> extraction[i].text],
                                 Join([i \in 1..Len(extraction) |-> extraction[i].spans], <<>>),
                                 Len(extraction)))
         IN  IF pymupdf.raised
             THEN [consulted |-> <<"_extract_with_pymupdf">>, outcome |-> pymupdf]
             ELSE IF pymupdf.value # None
             THEN [consulted |-> <<"_extract_with_pymupdf">>,
                   outcome |-> document(pymupdf.value[1])]
             ELSE IF pdfplumber # None
             THEN [consulted |-> <<"_extract_with_pymupdf", "_extract_with_pdfplumber">>,
                   outcome |-> document(pdfplumber[1])]
             ELSE [consulted |-> <<"_extract_with_pymupdf", "_extract_with_pdfplumber",
                                   "_extract_with_fallback">>,
                   outcome |-> IF fallback.raised THEN fallback
                               ELSE document(fallback.value)]

\* The answers the PDF readers have for an upload; one that parse reads as
\* text reaches no reader.
ReaderAnswers(file_bytes) ==
    IF file_bytes = <<>> \/ ~StartsWith(LStrip(file_bytes), T("%PDF"))
    THEN {[pymupdf |-> Return(None), pdfplumber |-> None, fallback |-> Return(<<>>)]}
    ELSE [pymupdf : {Return(None), Raise("get_text failed")}
                        \cup {Return(Some(extraction)) : extraction \in PageExtractions},
          pdfplumber : {None} \cup {Some(extraction) : extraction \in PageExtractions \ {<<>>}},
          fallback : {Raise("PdfReader failed")}
                        \cup {Return(extraction) : extraction \in PageExtractions \ {<<>>}}]

\* The call PdfIngestor().parse(file_bytes) for the upload of call_args.
Parse ==
    /\ call_result = None
    /\ \E readers \in ReaderAnswers(call_args[1]) :
        call_result' = Some([readers |-> readers] @@
                            PdfIngestor_parse(call_args[1], readers.pymupdf,
                                              readers.pdfplumber, readers.fallback))
    /\ UNCHANGED <<call_args, reportVars, validateVars, renderVars, analyzeVars, sessionVars>>

InitParse ==
    /\ Constructed
    /\ call_args \in {Some(file_bytes) :
                         file_bytes \in UNION {[1..n -> UploadBytes] : n \in 0..MaxBytes}}
    /\ call_result = None

NextParse == Parse

SpecParse == InitParse /\ [][NextParse]_vars

(***************************************************************************)
(* pdf_ingestor.py: the internal parser of PdfIngestor.  Indices are the   *)
(* 1-based indices of a sequence of bytes.                                 *)
(***************************************************************************)

RECURSIVE ByteRun(_, _, _)
\* The number of bytes from index k on that \d+ ("digit") or \s+ ("space") of
\* a bytes pattern consumes.
ByteRun(b, k, class) ==
    IF k > Len(b) THEN 0
    ELSE IF class = "digit" /\ b[k] \notin 48..57 THEN 0
    ELSE IF class = "space" /\ b[k] \notin {32, 9, 10, 11, 12, 13} THEN 0
    ELSE 1 + ByteRun(b, k + 1, class)

RECURSIVE FirstIn(_, _, _)
\* The least index of lo..hi that has the property Hit, 0 without one.
FirstIn(Hit(_), lo, hi) ==
    LET later(left, mid) == IF left # 0 THEN left ELSE FirstIn(Hit, mid + 1, hi)
        halves(mid) == later(FirstIn(Hit, lo, mid), mid)
    IN  IF lo > hi THEN 0
        ELSE IF lo = hi THEN (IF Hit(lo) THEN lo ELSE 0)
        ELSE halves((lo + hi) \div 2)

\* The first index from k on where the literal p occurs, 0 without one.
FindFrom(p, b, k) ==
    LET hit(i) == MatchAt(p, b, i)
    IN  FirstIn(hit, k, Len(b) - Len(p) + 1)

\* (\d+)\s+\d+\s+ matched at index i: the index after the match, 0 without one.
TwoNumbers(b, i) ==
    LET after_s2(k, s2) == IF s2 = 0 THEN 0 ELSE k + s2
        after_d2(k, d2) == IF d2 = 0 THEN 0 ELSE after_s2(k + d2, ByteRun(b, k + d2, "space"))
        after_s1(k, s1) == IF s1 = 0 THEN 0 ELSE after_d2(k + s1, ByteRun(b, k + s1, "digit"))
        after_d1(d1) == IF d1 = 0 THEN 0 ELSE after_s1(i + d1, ByteRun(b, i + d1, "space"))
    IN  after_d1(ByteRun(b, i, "digit"))

\* _OBJECT_RE matched at index i: the object id, the body and the index after
\* the match; None without a match.
ObjectAt(b, i) ==
    LET found(id, body_start, end) ==
            IF end = 0 THEN None
            ELSE Some([id |-> id, body |-> SubSeq(b, body_start, end - 1), stop |-> end + 6])
        body(k) ==
            IF k = 0 \/ ~MatchAt(T("obj"), b, k) THEN None
            ELSE found(ToInt(SubSeq(b, i, i + ByteRun(b, i, "digit") - 1)), k + 3,
                       FindFrom(T("endobj"), b, k + 3))
    IN  body(TwoNumbers(b, i))

RECURSIVE ObjectMatches(_, _, _)
\* _OBJECT_RE.finditer from index k on, folded into the table of objects.
ObjectMatches(b, k, objects) ==
    LET next(match) == ObjectMatches(b, match.stop, DictSet(objects, match.id, match.body))
        first(i) == IF i = 0 THEN objects ELSE next(ObjectAt(b, i)[1])
        hit(i) == b[i] \in 48..57 /\ ObjectAt(b, i) # None
    IN  first(FirstIn(hit, k, Len(b)))

\* The dict of object id to object body; a later object of an id replaces
\* the earlier one.
_build_object_table(file_bytes) == ObjectMatches(file_bytes, 1, <<>>)

\* objects.get(key, b"")
ObjectGet(objects, key) ==
    IF \E i \in 1..Len(objects) : objects[i].key = key
    THEN objects[CHOOSE i \in 1..Len(objects) : objects[i].key = key].value
    ELSE <<>>

RECURSIVE IndirectRefs(_, _)
\* _INDIRECT_REF_RE.findall from index k on.
IndirectRefs(b, k) ==
    LET reference(i, stop) == <<ToInt(SubSeq(b, i, i + ByteRun(b, i, "digit") - 1))>>
                                  \o IndirectRefs(b, stop + 1)
        first(i) == IF i = 0 THEN <<>> ELSE reference(i, TwoNumbers(b, i))
        hit(i) == b[i] \in 48..57 /\ TwoNumbers(b, i) # 0 /\ MatchAt(T("R"), b, TwoNumbers(b, i))
    IN  first(FirstIn(hit, k, Len(b)))

\* The ids of the content streams of a page object: a direct reference, else
\* the references of a /Contents array, else none.
_resolve_contents_ids(page_object) ==
    LET after_name(i) == i + 9 + ByteRun(page_object, i + 9, "space")
        is_direct(k) == /\ TwoNumbers(page_object, k) # 0
                        /\ MatchAt(T("R"), page_object, TwoNumbers(page_object, k))
        is_array(k) == /\ MatchAt(T("["), page_object, k)
                       /\ FindFrom(T("]"), page_object, k + 1) # 0
        reference(k) == <<ToInt(SubSeq(page_object, k, k + ByteRun(page_object, k, "digit") - 1))>>
        array(k, stop) == IndirectRefs(SubSeq(page_object, k + 1, stop - 1), 1)
        found(direct, in_array) ==
            IF direct # 0 THEN reference(after_name(direct))
            ELSE IF in_array # 0
            THEN array(after_name(in_array), FindFrom(T("]"), page_object, after_name(in_array) + 1))
            ELSE <<>>
        search(name) ==
            LET named(i) == MatchAt(name, page_object, i) /\ after_name(i) > i + 9
                direct_at(i) == named(i) /\ is_direct(after_name(i))
                array_at(i) == named(i) /\ is_array(after_name(i))
            IN  found(FirstIn(direct_at, 1, Len(page_object)), FirstIn(array_at, 1, Len(page_object)))
    IN  search(T("/Contents"))

RECURSIVE SpaceRunBefore(_, _, _)
\* The number of \s bytes that end just before index q and start at g or later.
SpaceRunBefore(b, q, g) ==
    IF q - 1 < g \/ b[q - 1] \notin {32, 9, 10, 11, 12, 13} THEN 0
    ELSE 1 + SpaceRunBefore(b, q - 1, g)

\* The streams that zlib.decompress inflates, with what it returns; every
\* other stream is a zlib.error.
Deflated == <<[key |-> <<120, 156, 211, 168, 202, 44, 208, 84, 8, 201, 2, 0, 11, 90, 2, 131>>,
               value |-> T("(zip) Tj")]>>

\* The stream of an object, inflated when the object names FlateDecode; b""
\* without a stream and on a zlib.error.
_extract_stream(raw_object) ==
    LET inflate(stream) ==
            IF ~Contains(T("FlateDecode"), raw_object) THEN stream
            ELSE ObjectGet(Deflated, stream)
        group(g, q) ==
            inflate(RStripChars(LStripChars(SubSeq(raw_object, g, q - 1 - SpaceRunBefore(raw_object, q, g)),
                                            {13, 10}), {13, 10}))
        after_keyword(i) == i + 6 + ByteRun(raw_object, i + 6, "space")
        match(g) == group(g, FindFrom(T("endstream"), raw_object, g))
        first(i) == IF i = 0 THEN <<>> ELSE match(after_keyword(i))
        search(keyword) ==
            LET hit(i) == /\ MatchAt(keyword, raw_object, i)
                          /\ FindFrom(T("endstream"), raw_object, after_keyword(i)) # 0
            IN  first(FirstIn(hit, 1, Len(raw_object)))
    IN  search(T("stream"))

\* bytes.decode("utf-16-be", errors="ignore"): a unit outside the surrogates
\* is its code point, a high surrogate with the low one after it is one code
\* point, every other unit and an odd last byte are dropped.
Utf16BeDecodeIgnore(b) ==
    LET unit(k) == b[2 * k - 1] * 256 + b[2 * k]
        units == Len(b) \div 2
        decoded(k) ==
            IF unit(k) \notin 55296..57343 THEN Some(unit(k))
            ELSE IF unit(k) <= 56319 /\ k < units /\ unit(k + 1) \in 56320..57343
            THEN Some(65536 + (unit(k) - 55296) * 1024 + (unit(k + 1) - 56320))
            ELSE None
    IN  Join([k \in 1..units |-> decoded(k)], <<>>)

\* The text of the bytes of a literal string: UTF-16 after a byte order
\* mark, else UTF-8, else Latin-1.
StringText(raw_bytes) ==
    IF StartsWith(raw_bytes, <<254, 255>>)
    THEN Utf16BeDecodeIgnore(SubSeq(raw_bytes, 3, Len(raw_bytes)))
    ELSE LET utf8(decoded) == IF Utf8Len(decoded) = Len(raw_bytes) THEN decoded ELSE raw_bytes
         IN  utf8(Utf8DecodeIgnore(raw_bytes))

RECURSIVE ReadString(_, _, _, _)
\* The loop of _read_pdf_string from index i on, depth parentheses open and
\* result read so far: the bytes of the string and the index after it, or
\* the ValueError of bytearray.append for an octal escape above \377.
ReadString(data, i, depth, result) ==
    LET octal_count == IF i + 2 <= Len(data) /\ data[i + 2] \in 48..55
                       THEN (IF i + 3 <= Len(data) /\ data[i + 3] \in 48..55 THEN 3 ELSE 2)
                       ELSE 1
        octal(n) == IF n = 1 THEN data[i + 1] - 48
                    ELSE IF n = 2 THEN (data[i + 1] - 48) * 8 + (data[i + 2] - 48)
                    ELSE (data[i + 1] - 48) * 64 + (data[i + 2] - 48) * 8 + (data[i + 3] - 48)
        mapped(escape) == CASE escape = 110 -> 10 [] escape = 114 -> 13 [] escape = 116 -> 9
                            [] escape = 98 -> 8 [] escape = 102 -> 12 [] OTHER -> escape
    IN  IF i > Len(data) \/ depth = 0 THEN [raised |-> FALSE, value |-> result, advance |-> i]
        ELSE IF data[i] = 92
        THEN IF i + 1 > Len(data) THEN [raised |-> FALSE, value |-> result, advance |-> i + 1]
             ELSE IF data[i + 1] \in 48..55
             THEN IF octal(octal_count) > 255
                  THEN [raised |-> TRUE, value |-> T("byte must be in range(0, 256)"), advance |-> i]
                  ELSE ReadString(data, i + 1 + octal_count, depth, Append(result, octal(octal_count)))
             ELSE ReadString(data, i + 2, depth, Append(result, mapped(data[i + 1])))
        ELSE IF data[i] = 40 THEN ReadString(data, i + 1, depth + 1, Append(result, 40))
        ELSE IF data[i] = 41
        THEN IF depth = 1 THEN [raised |-> FALSE, value |-> result, advance |-> i + 1]
             ELSE ReadString(data, i + 1, depth - 1, Append(result, 41))
        ELSE ReadString(data, i + 1, depth, Append(result, data[i]))

\* The literal string whose first byte is at index start, as (text, advance);
\* raised with the ValueError of an octal escape above \377.
_read_pdf_string(data, start) ==
    LET decode(read) == IF read.raised THEN read
                        ELSE [raised |-> FALSE, value |-> StringText(read.value), advance |-> read.advance]
    IN  decode(ReadString(data, start, 1, <<>>))

RECURSIVE StreamChunks(_, _, _, _)
\* The first loop of _extract_text_from_stream from index i on: the chunks,
\* or the ValueError of a literal string.
StreamChunks(stream_bytes, i, chunks, buffer) ==
    LET flushed == IF buffer = <<>> THEN chunks ELSE Append(chunks, buffer)
        is_token(j) == \/ stream_bytes[j] \in {40, 39}
                       \/ /\ stream_bytes[j] = 84
                          /\ j < Len(stream_bytes)
                          /\ stream_bytes[j + 1] \in {106, 74, 42}
        string(j, read) == IF read.raised THEN [raised |-> TRUE, value |-> read.value]
                           ELSE StreamChunks(stream_bytes, read.advance, chunks, buffer \o read.value)
        at(j) == IF j = 0 THEN [raised |-> FALSE, value |-> flushed]
                 ELSE IF stream_bytes[j] = 40 THEN string(j, _read_pdf_string(stream_bytes, j + 1))
                 ELSE IF MatchAt(T("Tj"), stream_bytes, j) \/ MatchAt(T("TJ"), stream_bytes, j)
                 THEN StreamChunks(stream_bytes, j + 2, flushed, <<>>)
                 ELSE IF MatchAt(T("T*"), stream_bytes, j)
                 THEN StreamChunks(stream_bytes, j + 2, Append(flushed, <<10>>), <<>>)
                 ELSE StreamChunks(stream_bytes, j + 1, Append(flushed, <<10>>), <<>>)
    IN  at(FirstIn(is_token, i, Len(stream_bytes)))

RECURSIVE ChunkLines(_, _)
\* The second loop of _extract_text_from_stream: the chunk "\n" ends a line.
ChunkLines(chunks, current) ==
    IF chunks = <<>> THEN (IF current = <<>> THEN <<>> ELSE <<current>>)
    ELSE IF Head(chunks) = <<10>> THEN <<current>> \o ChunkLines(Tail(chunks), <<>>)
    ELSE ChunkLines(Tail(chunks), current \o Head(chunks))

\* The text that the operators Tj, TJ, T* and ' of a content stream show,
\* one stripped non-blank line per line; raised with the ValueError of a
\* literal string.
_extract_text_from_stream(stream_bytes) ==
    LET text(lines) == Join(SelectSeq([k \in 1..Len(lines) |-> Strip(lines[k])],
                                      LAMBDA line : line # <<>>), <<10>>)
        shown(chunks) == IF chunks.raised THEN chunks
                         ELSE Return(text(ChunkLines(chunks.value, <<>>)))
    IN  shown(StreamChunks(stream_bytes, 1, <<>>, <<>>))
\* The pages of the internal parser: one text per object that holds b"/Type"
\* and b"/Page", in the order of the table; the decoded file without objects
\* or without such an object.  Raised with the ValueError of a literal
\* string of one of the content streams.
_extract_with_naive_parser(file_bytes) ==
    LET fragment(objects, content_id) ==
            LET shown(stream_bytes) == IF stream_bytes = <<>> THEN Return(<<>>)
                                       ELSE _extract_text_from_stream(stream_bytes)
            IN  shown(_extract_stream(ObjectGet(objects, content_id)))
        page_text(text_fragments) ==
            IF \E k \in 1..Len(text_fragments) : text_fragments[k].raised
            THEN text_fragments[CHOOSE k \in 1..Len(text_fragments) : text_fragments[k].raised]
            ELSE Return(Join(SelectSeq([k \in 1..Len(text_fragments) |-> text_fragments[k].value],
                                       LAMBDA text : text # <<>>), <<10>>))
        page(objects, raw) ==
            LET fragments(content_object_ids) ==
                    page_text([k \in 1..Len(content_object_ids) |->
                                  fragment(objects, content_object_ids[k])])
            IN  fragments(_resolve_contents_ids(raw))
        collect(pages) ==
            IF \E k \in 1..Len(pages) : pages[k].raised
            THEN pages[CHOOSE k \in 1..Len(pages) : pages[k].raised]
            ELSE IF pages # <<>> THEN Return([k \in 1..Len(pages) |-> pages[k].value])
            ELSE Return(<<Utf8DecodeIgnore(file_bytes)>>)
        scan(objects) ==
            LET raws == SelectSeq([k \in 1..Len(objects) |-> objects[k].value],
                                  LAMBDA raw : Contains(T("/Type"), raw) /\ Contains(T("/Page"), raw))
            IN  collect([k \in 1..Len(raws) |-> page(objects, raws[k])])
    IN  scan(_build_object_table(file_bytes))

\* pypdf is what PdfReader answers: the texts of its pages, none when
\* neither pypdf nor PyPDF2 is installed, or the exception of PdfReader.
_extract_with_pypdf(pypdf) == pypdf

\* The pages of pypdf, of the internal parser when pypdf has none.
_extract_pdf_pages(file_bytes, pypdf) ==
    IF _extract_with_pypdf(pypdf).raised THEN _extract_with_pypdf(pypdf)
    ELSE IF _extract_with_pypdf(pypdf).value # <<>> THEN _extract_with_pypdf(pypdf)
    ELSE _extract_with_naive_parser(file_bytes)

\* The box (0.08, bottom, 0.92, max(top, bottom + 0.02)) of line line_index
\* of visible_count lines, as numerators over one = 100 * (visible_count + 1).
LineBox(line_index, visible_count) ==
    LET one == 100 * (visible_count + 1)
        top == one - 100 * line_index
        bottom == Max(top - 85, 0)
    IN  [bbox |-> <<8 * (visible_count + 1), bottom,
                    92 * (visible_count + 1), Max(top, bottom + 2 * (visible_count + 1))>>,
         one |-> one]

\* The _PageExtraction of every page of _extract_pdf_pages: the text and one
\* span per stripped non-blank line, its box in hundredths (rounded down).
_extract_with_fallback(file_bytes, pypdf) ==
    LET line_spans(page_index, lines) ==
            [line_index \in 1..Len(lines) |->
                TextSpan(page_index, lines[line_index],
                         [c \in 1..4 |-> (LineBox(line_index, Len(lines)).bbox[c] * 100)
                                             \div LineBox(line_index, Len(lines)).one])]
        stripped(lines) == SelectSeq([k \in 1..Len(lines) |-> Strip(lines[k])],
                                     LAMBDA line : line # <<>>)
        extraction(pages) ==
            IF pages.raised THEN pages
            ELSE Return([page_index \in 1..Len(pages.value) |->
                            [text |-> pages.value[page_index],
                             spans |-> line_spans(page_index, stripped(SplitLines(pages.value[page_index])))]])
    IN  extraction(_extract_pdf_pages(file_bytes, pypdf))

(***************************************************************************)
(* PdfIngestor.parse of PDF files without PyMuPDF and pdfplumber: files    *)
(* put together from a pool of objects, and files that the highlight       *)
(* writer builds.                                                          *)
(***************************************************************************)

MaxBuiltPages == 2

\* The catalog, the page tree and two pages; page 3 shows the stream 4, page
\* 5 the streams 6 and 7.
PoolObjects ==
    <<[id |-> 1, body |-> T("<< /Type /Catalog /Pages 2 0 R >>")],
      [id |-> 2, body |-> T("<< /Type /Pages /Kids [3 0 R 5 0 R] /Count 2 >>")],
      [id |-> 3, body |-> T("<< /Type /Page /Parent 2 0 R /Contents 4 0 R >>")],
      [id |-> 5, body |-> T("<< /Type /Page /Parent 2 0 R /Contents [6 0 R 7 0 R] >>")]>>

\* The content streams by name, with the text each shows on its page when an
\* error in it stays on the page.
PoolStreams ==
    [plain |-> [body |-> T("<< /Length 7 >>\nstream\n(Hi) Tj\nendstream"), shown |-> T("Hi")],
     octal |-> [body |-> T("<< /Length 11 >>\nstream\n(a\\101b) Tj\nendstream"), shown |-> T("aAb")],
     octal_400 |-> [body |-> T("<< /Length 10 >>\nstream\n(b\\400) Tj\nendstream"), shown |-> <<>>],
     octal_777 |-> [body |-> T("<< /Length 10 >>\nstream\n(a\\777) Tj\nendstream"), shown |-> <<>>],
     deflated |-> [body |-> T("<< /Length 16 /Filter /FlateDecode >>\nstream\n") \o Deflated[1].key
                               \o T("\nendstream"), shown |-> T("zip")],
     not_deflated |-> [body |-> T("<< /Length 7 /Filter /FlateDecode >>\nstream\n(Hi) Tj\nendstream"),
                       shown |-> <<>>],
     absent |-> [body |-> <<>>, shown |-> <<>>]]

\* What a file is made from: the kept objects of the pool and the streams 4,
\* 6 and 7, or the pages handed to the highlight writer (built, an Optional).
FileSources ==
    [kept : SUBSET {1, 2, 3, 5},
     stream4 : {"absent", "plain", "octal_777", "not_deflated"},
     stream6 : {"octal", "deflated"},
     stream7 : {"absent", "octal_400"},
     built : {None}]
    \cup
    LET page == {<<lines, highlights>> :
                    lines \in {<<>>, <<T("Hi")>>, <<<<12354>> \o T("(x)"), T("b")>>},
                    highlights \in {<<>>, <<<<10, 30, 90, 40>>>>}}
    IN  [kept : {{}}, stream4 : {"absent"}, stream6 : {"octal"}, stream7 : {"absent"},
         built : {Some(pages) : pages \in UNION {[1..n -> page] : n \in 0..MaxBuiltPages}}]

\* The bytes of a file put together from the pool.
PoolFile(source) ==
    LET object(id, body) == IF body = <<>> THEN <<>> ELSE ObjHeader([id |-> id, body |-> body]) \o T("\n")
        kept == SelectSeq(PoolObjects, LAMBDA obj : obj.id \in source.kept)
    IN  T("%PDF-1.4\n")
            \o Join([k \in 1..Len(kept) |-> object(kept[k].id, kept[k].body)], <<>>)
            \o object(4, PoolStreams[source.stream4].body)
            \o object(6, PoolStreams[source.stream6].body)
            \o object(7, PoolStreams[source.stream7].body)

\* What PdfReader answers: neither pypdf nor PyPDF2 installed, one page, an
\* exception.  The files of the pool are read without pypdf.
PypdfAnswers(source) ==
    IF source.built = None THEN {Return(<<>>)}
    ELSE {Return(<<>>), Return(<<T("a")>>), Raise("PdfReader failed")}

\* _SimplePDFBuilder: add_page for every page, then build().
BuildFile ==
    /\ call_result = None
    /\ call_args[1].source.built # None
    /\ call_result' = Some([file_bytes |-> build(call_args[1].source.built[1]), parsed |-> None])
    /\ UNCHANGED <<call_args, reportVars, validateVars, renderVars, analyzeVars, sessionVars>>

\* PdfIngestor().parse(file_bytes) of the file of the pool or of the built
\* file, PyMuPDF and pdfplumber not installed.
ParseFile ==
    LET parsed(file_bytes) ==
            Some([file_bytes |-> file_bytes,
                  parsed |-> Some(PdfIngestor_parse(file_bytes, Return(None), None,
                                      _extract_with_fallback(file_bytes, call_args[1].pypdf)).outcome)])
    IN  /\ \/ /\ call_result = None
              /\ call_args[1].source.built = None
              /\ call_result' = parsed(PoolFile(call_args[1].source))
           \/ /\ call_result # None
              /\ call_result[1].parsed = None
              /\ call_result' = parsed(call_result[1].file_bytes)
        /\ UNCHANGED <<call_args, reportVars, validateVars, renderVars, analyzeVars, sessionVars>>

InitFallback ==
    /\ Constructed
    /\ call_args \in UNION {{Some([source |-> source, pypdf |-> pypdf]) :
                                  pypdf \in PypdfAnswers(source)} : source \in FileSources}
    /\ call_result = None

NextFallback == BuildFile \/ ParseFile

SpecFallback == InitFallback /\ [][NextFallback]_vars

(***************************************************************************)
(* pdf_ingestor.py: the boxes of the spans, _normalize_bbox for the boxes  *)
(* of an external extractor and the boxes of the lines of the fallback     *)
(***************************************************************************)

MaxVisibleLines == 100

\* Coordinates and page sizes in points.
BoxCoordinates == {-10, 0, 50, 100, 110}

PageSizes == {0, 100, 200}

\* The box of (x0, y0, x1, y1), top-origin points on a page of width by
\* height, as numerators over x_one = 50 * width and y_one = 50 * height, so
\* that the epsilon 0.02 is width, respectively height.  A page without
\* area gives (0.05, 0.05, 0.95, 0.15), written over 100.
_normalize_bbox(x0, y0, x1, y1, width, height) ==
    LET clamp(value, one) == Max(0, IF value > one THEN one ELSE value)
        expanded(low, high, one, epsilon) ==
            IF high <= low THEN clamp(low + epsilon, one) ELSE high
        box(nx0, nx1, ny0, ny1) ==
            [bbox |-> <<nx0, ny0, expanded(nx0, nx1, 50 * width, width),
                        expanded(ny0, ny1, 50 * height, height)>>,
             x_one |-> 50 * width, y_one |-> 50 * height]
    IN  IF width <= 0 \/ height <= 0
        THEN [bbox |-> <<5, 5, 95, 15>>, x_one |-> 100, y_one |-> 100]
        ELSE box(clamp(50 * x0, 50 * width), clamp(50 * x1, 50 * width),
                 clamp(50 * height - 50 * y1, 50 * height),
                 clamp(50 * height - 50 * y0, 50 * height))

\* _blocks_to_spans calls _normalize_bbox for the box of a block.
NormalizeBbox ==
    /\ call_result = None
    /\ call_args[1].visible_count = 0
    /\ call_result' = Some(<<_normalize_bbox(call_args[1].bbox[1], call_args[1].bbox[2],
                                             call_args[1].bbox[3], call_args[1].bbox[4],
                                             call_args[1].width, call_args[1].height)>>)
    /\ UNCHANGED <<call_args, reportVars, validateVars, renderVars, analyzeVars, sessionVars>>

\* _extract_with_fallback makes the boxes of the visible_count lines of a
\* page.
LineSpans ==
    /\ call_result = None
    /\ call_args[1].visible_count > 0
    /\ call_result' = Some([line_index \in 1..call_args[1].visible_count |->
                               [bbox |-> LineBox(line_index, call_args[1].visible_count).bbox,
                                x_one |-> LineBox(line_index, call_args[1].visible_count).one,
                                y_one |-> LineBox(line_index, call_args[1].visible_count).one]])
    /\ UNCHANGED <<call_args, reportVars, validateVars, renderVars, analyzeVars, sessionVars>>

InitBoxes ==
    /\ Constructed
    /\ call_args \in
           {Some([bbox |-> bbox, width |-> width, height |-> height, visible_count |-> 0]) :
               bbox \in [1..4 -> BoxCoordinates], width \in PageSizes, height \in PageSizes}
           \cup {Some([bbox |-> <<0, 0, 0, 0>>, width |-> 0, height |-> 0,
                       visible_count |-> visible_count]) : visible_count \in 1..MaxVisibleLines}
    /\ call_result = None

NextBoxes == NormalizeBbox \/ LineSpans

SpecBoxes == InitBoxes /\ [][NextBoxes]_vars

(***************************************************************************)
(* SpecNumeric: _extract_numeric on the text of an amount                  *)
(***************************************************************************)

\* Figures as they are written before a unit, each with the comma-grouped
\* figure of that many hundred millions.
NumericFigures ==
    {[numeric |-> T("3"), oku |-> T("300,000,000")],
     [numeric |-> T("1.5"), oku |-> T("150,000,000")],
     [numeric |-> T("12"), oku |-> T("1,200,000,000")],
     [numeric |-> T("0.25"), oku |-> T("25,000,000")],
     [numeric |-> T("20"), oku |-> T("2,000,000,000")]}

\* What stands before the figure: nothing, "JPY ", the yen sign, U+7D04.
NumericLeads == {<<>>, T("JPY "), <<165>>, <<32004>>}

\* The unit after the figure: U+5104 U+5186, U+5104, U+5186, none, U+4E07 U+5186.
NumericUnits == {<<20740, 20870>>, <<20740>>, <<20870>>, <<>>, <<19975, 20870>>}

\* The call _extract_numeric(text) for the amount of call_args.
ExtractNumeric ==
    /\ call_result = None
    /\ call_result' = Some(_extract_numeric(call_args[1].lead \o call_args[1].figure.numeric
                                                \o call_args[1].unit))
    /\ UNCHANGED <<call_args, reportVars, validateVars, renderVars, analyzeVars, sessionVars>>

InitNumeric ==
    /\ Constructed
    /\ call_args \in {Some([lead |-> lead, figure |-> figure, unit |-> unit]) :
                         lead \in NumericLeads, figure \in NumericFigures, unit \in NumericUnits}
    /\ call_result = None

NextNumeric == ExtractNumeric

SpecNumeric == InitNumeric /\ [][NextNumeric]_vars

(***************************************************************************)
(* SpecTitle: _extract_title on a document, and                            *)
(* _confidence_from_title_score on scores                                  *)
(***************************************************************************)

\* The lines of the pages: a line TITLE_PATTERN matches, lines that are
\* scored with and without keywords, a line too short to be scored, a
\* sentence with a verb term, and a title in Japanese (U+914D U+5F53 U+91D1
\* U+901A U+77E5 U+66F8).
TitleLines ==
    <<T("Dividend Resolution"),
      T("Board Minutes"),
      T("Annual Report 2024"),
      T("Hi"),
      T("The board resolved to pay a dividend."),
      <<37197, 24403, 37329, 36890, 30693, 26360>>>>

\* The "Title" of the metadata: none, one that is scored, one that is not,
\* and one that a line repeats.
MetadataTitles == {None, Some(T("Notice of Payment")), Some(T("x")), Some(T("board minutes"))}

\* Title scores in tenths, around the ends of the clamp at 0 and 28.0.
TitleScores == {-50, 0, 1, 72, 120, 138, 250, 279, 280, 281, 400}

\* A document whose first page_break lines are on page 1 and the others on
\* page 2, without tokens.
PagesOf(page_lines, page_break, title) ==
    TitledDocument(
        IF page_break >= Len(page_lines) THEN <<Join(page_lines, T("\n"))>>
        ELSE <<Join(SubSeq(page_lines, 1, page_break), T("\n")),
               Join(SubSeq(page_lines, page_break + 1, Len(page_lines)), T("\n"))>>,
        <<>>,
        IF page_break >= Len(page_lines) THEN 1 ELSE 2,
        title)

\* The call _extract_title(parsed) for the document of call_args.
ExtractTitle ==
    /\ call_result = None
    /\ call_args[1].scores = <<>>
    /\ call_result' = Some([title |-> _extract_title(call_args[1].parsed),
                            confidences |-> <<>>])
    /\ UNCHANGED <<call_args, reportVars, validateVars, renderVars, analyzeVars, sessionVars>>

\* The call _confidence_from_title_score(score) for the next score of
\* call_args.
ConfidenceFromTitleScore ==
    LET done == IF call_result = None THEN <<>> ELSE call_result[1].confidences
    IN  /\ Len(done) < Len(call_args[1].scores)
        /\ call_result' =
               Some([title |-> FieldValue_empty,
                     confidences |->
                         Append(done, _confidence_from_title_score(
                                          call_args[1].scores[Len(done) + 1]))])
        /\ UNCHANGED <<call_args, reportVars, validateVars, renderVars, analyzeVars, sessionVars>>

InitTitle ==
    /\ Constructed
    /\ call_args \in
           {Some([parsed |-> PagesOf(page_lines, page_break, title), scores |-> <<>>]) :
                page_lines \in Orderings(TitleLines, MaxLines),
                page_break \in {1, MaxLines},
                title \in MetadataTitles}
           \cup {Some([parsed |-> PagesOf(<<>>, MaxLines, None), scores |-> <<low, high>>]) :
                    low \in TitleScores, high \in TitleScores}
    /\ call_result = None

NextTitle == ExtractTitle \/ ConfidenceFromTitleScore

SpecTitle == InitTitle /\ [][NextTitle]_vars

(***************************************************************************)
(* SpecDateCheck: RuleBasedVoucherExtractor.extract on a page with one     *)
(* dated line, then VoucherValidator.validate on what it extracted         *)
(***************************************************************************)

\* Months and days of one or two digits, in and out of the calendar.
CheckedMonths == {0, 2, 12, 13, 99}

CheckedDays == {0, 1, 29, 31, 32, 99}

\* A common year and a leap year.
CheckedYears == {2023, 2024}

\* What the line holds before the date: nothing, a resolution-date label.
DatePrefixes == {<<>>, T("Resolution Date: ")}

\* The call RuleBasedVoucherExtractor().extract(parsed) for a page whose
\* only line is the prefix and the date of call_args.
ExtractDated ==
    /\ call_result = None
    /\ call_result' = Some(RuleBasedVoucherExtractor_extract(
                               PageOf(<<call_args[1].prefix \o DateText(call_args[1].date)>>)))
    /\ UNCHANGED <<call_args, reportVars, validateVars, renderVars, analyzeVars, sessionVars>>

\* The call VoucherValidator().validate(data) for the extracted data.
ValidateExtracted ==
    /\ call_result # None
    /\ Validate(call_result[1])

InitDateCheck ==
    /\ Constructed
    /\ call_args \in {Some([prefix |-> prefix, date |-> date]) :
                         prefix \in DatePrefixes,
                         date \in [notation : DateNotations, year : CheckedYears,
                                   month : CheckedMonths, day : CheckedDays,
                                   padded : BOOLEAN]}
    /\ call_result = None

NextDateCheck == ExtractDated \/ ValidateExtracted

SpecDateCheck == InitDateCheck /\ [][NextDateCheck]_vars

(***************************************************************************)
(* Claims                                                                  *)
(***************************************************************************)

\* The four format checks of a field value, as the claims name them.
FieldOk(data, field_name) ==
    /\ is_set(data[field_name])
    /\ field_name = "resolution_date" => _is_valid_date(data.resolution_date.value[1])
    /\ field_name = "dividend_amount" => _is_valid_amount(data.dividend_amount.value[1])

StatusOf(rep, key) ==
    rep.requirements[CHOOSE i \in 1..Len(rep.requirements) :
                         rep.requirements[i].key = key].value.status

OutcomeOfMap(items) ==
    IF Len(items) = 0 THEN "UNKNOWN"
    ELSE IF \E i \in 1..Len(items) : items[i].value.status = "FAIL" THEN "FAIL"
    ELSE IF \E i \in 1..Len(items) : items[i].value.status = "UNKNOWN" THEN "WARNING"
    ELSE "PASS"

\* C8: after any sequence of register calls overall_status is UNKNOWN for an
\* empty map, FAIL if any current entry is FAIL, else WARNING if any is
\* UNKNOWN, else PASS; the registered key holds the registered status, every
\* key occurs once, and a re-registered key keeps its insertion position.
C8_RegisterDerivesOverallStatus ==
    /\ report.overall_status = OutcomeOfMap(report.requirements)
    /\ \A i, j \in 1..Len(report.requirements) :
           report.requirements[i].key = report.requirements[j].key => i = j
    /\ lastRegister # None =>
           LET call == lastRegister[1]
               before == call.before.requirements
               after == report.requirements
           IN  /\ Len(after) >= Len(before)
               /\ \A i \in 1..Len(before) : after[i].key = before[i].key
               /\ \A i \in 1..Len(before) :
                      before[i].key # call.key => after[i] = before[i]
               /\ (\E i \in 1..Len(before) : before[i].key = call.key)
                      => Len(after) = Len(before)
               /\ StatusOf(report, call.key) = call.status

\* C8 witness: the first of three keys was re-registered from FAIL to
\* UNKNOWN, which turns the outcome from FAIL into WARNING.
C8_Witness ==
    /\ lastRegister # None
    /\ Len(report.requirements) = 3
    /\ lastRegister[1].key = report.requirements[1].key
    /\ lastRegister[1].before.requirements[1].value.status = "FAIL"
    /\ lastRegister[1].before.overall_status = "FAIL"
    /\ report.requirements[1].value.status = "UNKNOWN"
    /\ report.overall_status = "WARNING"

\* The no-op condition of render: no spans, no document, or no pages.
RenderIsNoOp(call) ==
    \/ call.spans = <<>>
    \/ call.parsed_document = None
    \/ call.parsed_document[1].pages = <<>>

\* C9: with an empty span list, an absent document or a document without
\* pages, render returns the original bytes unchanged, whatever the bytes
\* are, and rendering its own output again returns the same bytes.
C9_RenderNoOpReturnsOriginal ==
    (rendered # None /\ RenderIsNoOp(rendered[1])) =>
        /\ rendered[1].output = rendered[1].original_pdf
        /\ rendered[1].output = rendered[1].first

\* C9 witness: bytes that are not a PDF came back unchanged from the second
\* render in a row, with a one-page document and no spans.
C9_Witness ==
    /\ rendered # None
    /\ rendered[1].passes = 2
    /\ rendered[1].spans = <<>>
    /\ rendered[1].parsed_document # None
    /\ Len(rendered[1].parsed_document[1].pages) = 1
    /\ rendered[1].first = Utf8Encode(T("PDF"))
    /\ rendered[1].output = Utf8Encode(T("PDF"))

\* Whether the call recorded in analysis invoked the stage and the stage
\* raised.
StageRaised(call, stage) ==
    \E i \in 1..Len(call.log) : call.log[i].stage = stage /\ call.log[i].raised

\* What the same request returns with a renderer that works and no store.
WithoutRenderFailure(call) ==
    analyze_voucher(call.file_bytes, call.provider, collaborators.pdf_ingestor,
                    collaborators.extractor, collaborators.validator,
                    "HighlightRenderer", None, None, <<>>, 1).outcome.value

\* C1: if render raises after ingestion and extraction succeeded,
\* analyze_voucher returns a result with errors empty, exactly one warning
\* that mentions the failure, highlight_pdf equal to the input bytes, and the
\* extracted data and the validation report as they are without the failure.
C1_RenderFailureReturnsDegradedResult ==
    (analysis # None /\ StageRaised(analysis[1], "render")) =>
        /\ ~analysis[1].raised
        /\ analysis[1].result[1].errors = <<>>
        /\ Len(analysis[1].result[1].warnings) = 1
        /\ Contains(T("highlight failure"), analysis[1].result[1].warnings[1])
        /\ analysis[1].result[1].highlight_pdf = analysis[1].file_bytes
        /\ analysis[1].result[1].extracted = WithoutRenderFailure(analysis[1]).extracted
        /\ analysis[1].result[1].validation = WithoutRenderFailure(analysis[1]).validation

\* C2: if parse raises, analyze_voucher returns at once with highlight_pdf
\* equal to the input bytes, exactly one error message and overall_status
\* UNKNOWN; extractor, validator, renderer and store are not invoked.
C2_IngestFailureReturnsInput ==
    (analysis # None /\ StageRaised(analysis[1], "parse")) =>
        /\ ~analysis[1].raised
        /\ analysis[1].result[1].highlight_pdf = analysis[1].file_bytes
        /\ Len(analysis[1].result[1].errors) = 1
        /\ analysis[1].result[1].validation.overall_status = "UNKNOWN"
        /\ analysis[1].log = <<[stage |-> "parse", raised |-> TRUE]>>
        /\ _store = analysis[1]._store_before

\* C2 witness: an ingestor that raises on the sample document, in a call that
\* was given a store and the key "sess-1"; the result holds the sample bytes
\* and the one message of the failure.
C2_Witness ==
    /\ analysis # None
    /\ collaborators.pdf_ingestor = "FailingPdfIngestor"
    /\ analysis[1].file_bytes = Utf8Encode(SAMPLE_DOC)
    /\ analysis[1].store # None
    /\ analysis[1].session_key = Some(T("sess-1"))
    /\ StageRaised(analysis[1], "parse")
    /\ analysis[1].result # None
    /\ analysis[1].result[1].highlight_pdf = Utf8Encode(SAMPLE_DOC)
    /\ analysis[1].result[1].errors = <<T("PDF parsing failed: bad pdf")>>

\* C3: if extraction raises after a successful parse, analyze_voucher returns
\* a result with the parsed document, exactly one error message, an empty
\* highlight_pdf and overall_status UNKNOWN with no requirement registered;
\* validator, renderer and store are not invoked.
C3_ExtractFailureKeepsDocument ==
    (analysis # None /\ StageRaised(analysis[1], "extract")) =>
        /\ ~analysis[1].raised
        /\ analysis[1].result[1].parsed_document =
               parse(collaborators.pdf_ingestor, analysis[1].file_bytes).value
        /\ Len(analysis[1].result[1].errors) = 1
        /\ analysis[1].result[1].highlight_pdf = <<>>
        /\ analysis[1].result[1].validation.overall_status = "UNKNOWN"
        /\ analysis[1].result[1].validation.requirements = <<>>
        /\ analysis[1].log = <<[stage |-> "parse", raised |-> FALSE],
                               [stage |-> "extract", raised |-> TRUE]>>
        /\ _store = analysis[1]._store_before

\* C3 witness: the second call of a session fails in extraction, given the
\* store and the key under which the first call saved its result; the result
\* carries the one page of the document and the store still holds the first
\* result.
C3_Witness ==
    /\ analysis # None
    /\ calls = 2
    /\ StageRaised(analysis[1], "extract")
    /\ analysis[1].store = Some("InMemoryAnalysisStore")
    /\ analysis[1].session_key = Some(T("sess-1"))
    /\ analysis[1].result # None
    /\ analysis[1].result[1].parsed_document.pages = <<PASS_DOC>>
    /\ analysis[1].result[1].errors = <<T("Extraction failed: client failure")>>
    /\ load(_store, T("sess-1")) = Some(1)

\* The path of a returned call: the stage whose failure ended or degraded it.
ExtractionFailed(call) == StageRaised(call, "extract")

\* Bytes that _build_pdf wrote: the header of the writer up to its trailer.
IsSynthesizedPdf(bytes) ==
    /\ StartsWith(bytes, T("%PDF-1.4\n"))
    /\ EndsWith(bytes, T("\n%%EOF"))

\* C4 as stated: in every result analyze_voucher returns, on every path,
\* highlight_pdf is the untouched input or a newly synthesized PDF, and it is
\* empty only if the input was empty.
C4_HighlightNeverEmptyOnAnyPath ==
    (analysis # None /\ ~analysis[1].raised) =>
        /\ \/ analysis[1].result[1].highlight_pdf = analysis[1].file_bytes
           \/ IsSynthesizedPdf(analysis[1].result[1].highlight_pdf)
        /\ analysis[1].result[1].highlight_pdf = <<>> => analysis[1].file_bytes = <<>>

\* C4 amended: in every result returned on the success, ingestion-failure and
\* rendering-failure paths, highlight_pdf is the untouched input or a newly
\* synthesized PDF and is empty only if the input was empty; in every result
\* returned on the extraction-failure path highlight_pdf is empty.
C4_HighlightEmptyOnlyOnExtractFailure ==
    (analysis # None /\ ~analysis[1].raised) =>
        IF ExtractionFailed(analysis[1])
        THEN analysis[1].result[1].highlight_pdf = <<>>
        ELSE /\ \/ analysis[1].result[1].highlight_pdf = analysis[1].file_bytes
                \/ IsSynthesizedPdf(analysis[1].result[1].highlight_pdf)
             /\ analysis[1].result[1].highlight_pdf = <<>>
                    => analysis[1].file_bytes = <<>>

\* C4 witness: a successful call whose extraction answered with highlight
\* spans, so that the result holds a synthesized PDF and not the input.
C4_Witness ==
    /\ analysis # None
    /\ analysis[1].result # None
    /\ analysis[1].log[Len(analysis[1].log)] = [stage |-> "render", raised |-> FALSE]
    /\ analysis[1].result[1].extracted.source_highlights # <<>>
    /\ analysis[1].result[1].highlight_pdf # analysis[1].file_bytes
    /\ IsSynthesizedPdf(analysis[1].result[1].highlight_pdf)
    /\ analysis[1].result[1].warnings = <<>>

\* C5: whatever parse, extract, validate, render and save do, analyze_voucher
\* returns a result and raises nothing; only a failure of ingestion or of
\* extraction ends the pipeline early, as a result with an error.
C5_AlwaysReturnsResult ==
    analysis # None =>
        /\ ~analysis[1].raised
        /\ analysis[1].result[1].errors # <<>>
               <=> (StageRaised(analysis[1], "parse") \/ StageRaised(analysis[1], "extract"))

\* The number of times the call invoked store.save.
SaveCalls(call) == Cardinality({i \in 1..Len(call.log) : call.log[i].stage = "save"})

\* C6: save is called exactly once when ingestion and extraction succeeded
\* and a store and a non-empty key were supplied, and load of the key then
\* returns the object analyze_voucher returned; in every other case save is
\* not called and the store is left as it was.
C6_SavesOnceWhenStoreAndKey ==
    analysis # None =>
        IF /\ ~StageRaised(analysis[1], "parse")
           /\ ~StageRaised(analysis[1], "extract")
           /\ analysis[1].store # None
           /\ analysis[1].session_key # None
           /\ analysis[1].session_key # Some(<<>>)
        THEN /\ SaveCalls(analysis[1]) = 1
             /\ analysis[1].result # None
             /\ load(_store, analysis[1].session_key[1]) = Some(analysis[1].result[1].id)
        ELSE /\ SaveCalls(analysis[1]) = 0
             /\ _store = analysis[1]._store_before

\* C10: for the sample document, parsed by PdfIngestor and extracted by the
\* rule-based extractor, the result has all four required fields set,
\* overall_status PASS and company_name 'ACME Holdings'.
C10_SampleDocumentPasses ==
    (/\ analysis # None
     /\ analysis[1].file_bytes = Utf8Encode(SAMPLE_DOC)
     /\ collaborators.pdf_ingestor = "PdfIngestor"
     /\ collaborators.extractor.class = "RuleBasedVoucherExtractor"
     /\ analysis[1].result # None) =>
        /\ \A i \in 1..4 : is_set(analysis[1].result[1].extracted[RequiredFields[i]])
        /\ analysis[1].result[1].validation.overall_status = "PASS"
        /\ analysis[1].result[1].extracted.company_name.value = Some(T("ACME Holdings"))

\* C13: _match_date returns, for a date written in the hyphen, slash, kanji
\* or Reiwa notation, the text "YYYY-MM-DD" of its year (2018 + N for Reiwa
\* N), month and day with zero padding, the same for all notations, also
\* when month and day are outside the calendar; it never raises.
C13_MatchDateTotalOnNotations ==
    call_result # None =>
        call_result[1] =
            Some(ZeroPad(NatToText(call_args[1].year), 4) \o T("-")
                     \o ZeroPad(NatToText(call_args[1].month), 2) \o T("-")
                     \o ZeroPad(NatToText(call_args[1].day), 2))

\* A Reiwa date outside the calendar, written without padding, was matched.
C13_Witness ==
    /\ call_result # None
    /\ call_args[1].notation = "reiwa"
    /\ call_args[1].month = 2
    /\ call_args[1].day = 30
    /\ ~call_args[1].padded
    /\ call_result[1] = Some(T("2024-02-30"))

\* Whether the sequence holds the element.
Holds(sequence, element) == \E i \in 1..Len(sequence) : sequence[i] = element

\* C11: when a page holds the line with the total-dividend label, the total
\* and then the figure per share, and no other labelled total, the amount
\* _extract_dividend_amount returns is "36,000,000", taken from that line:
\* not the figure per share, not a number of another line, and not None.
C11_TotalFigureOfLabelledLine ==
    (/\ call_result # None
     /\ Holds(call_args[1], TOTAL_WITH_PER_SHARE)
     /\ ~Holds(call_args[1], AmountLines[4])) =>
        call_result[1] = Some(<<T("36,000,000"), TOTAL_WITH_PER_SHARE>>)

\* The index of the element in the sequence, 0 when it is not there.
IndexOf(sequence, element) ==
    IF Holds(sequence, element)
    THEN CHOOSE i \in 1..Len(sequence) : sequence[i] = element
    ELSE 0

\* C12: when a page holds one company-name line with a corporate suffix
\* and, on an earlier line, the narrative sentence, the company name that
\* _extract_company returns is exactly the text of the company-name line.
C12_CompanyNameLineIsTheValue ==
    \A k \in 1..2 :
        (/\ call_result # None
         /\ Holds(call_args[1], CompanyLines[k])
         /\ ~Holds(call_args[1], CompanyLines[3 - k])
         /\ IndexOf(call_args[1], NARRATIVE_SENTENCE) \in 1..(IndexOf(call_args[1], CompanyLines[k]) - 1)) =>
            /\ call_result[1] # None
            /\ call_result[1][1][1] = CompanyLines[k]

\* The line of a page that the rule of C14 takes the resolution date from,
\* as its index, 0 when the rule finds none.  A line is usable when it has
\* a date and no exclusion keyword.  Tier 1: for the first labelled line
\* that yields one, the labelled line itself when usable, else the line
\* after it when that is usable and is no labelled line; tier 2: the first
\* usable line with meeting or resolution vocabulary; tier 3: the first
\* usable line.
ResolutionDateLine(page_lines) ==
    LET excluded(k) == _line_contains_keyword(page_lines[k], DATE_EXCLUDE_KEYWORDS)
        usable(k) == ~excluded(k) /\ _match_date(page_lines[k]) # None
        labelled(k) == _line_contains_keyword(page_lines[k], DATE_LABEL_PRIORITY[1])
        vocabulary(k) ==
            _line_contains_keyword(page_lines[k],
                                   <<<<27770, 35696>>, <<21462, 32224, 24441, 20250>>,
                                     T("meeting"), T("resolved")>>)
        attached(k) ==
            IF ~labelled(k) \/ excluded(k) THEN 0
            ELSE IF usable(k) THEN k
            ELSE IF k < Len(page_lines) /\ usable(k + 1) /\ ~labelled(k + 1) THEN k + 1
            ELSE 0
        first(S) == IF S = {} THEN 0 ELSE CHOOSE k \in S : \A j \in S : k <= j
        tier1 == first({k \in 1..Len(page_lines) : attached(k) > 0})
        tier2 == first({k \in 1..Len(page_lines) : usable(k) /\ vocabulary(k)})
        tier3 == first({k \in 1..Len(page_lines) : usable(k)})
    IN  IF tier1 > 0 THEN attached(tier1)
        ELSE IF tier2 > 0 THEN tier2
        ELSE tier3

\* C14: for every ordering of the lines of a page, _extract_resolution_date
\* returns the date of the line that the three-tier rule names (labelled
\* date, then the first date with meeting or resolution vocabulary, then
\* the first date), None when the rule names no line, and never the date
\* of a line with an exclusion keyword.
C14_ResolutionDateFollowsTiers ==
    call_result # None =>
        LET chosen == ResolutionDateLine(call_args[1])
        IN  /\ call_result[1] =
                   IF chosen = 0 THEN None
                   ELSE Some(<<_match_date(call_args[1][chosen])[1], call_args[1][chosen]>>)
            /\ call_result[1] # None =>
                   ~_line_contains_keyword(call_result[1][1][2], DATE_EXCLUDE_KEYWORDS)

\* A page that starts with the payment date, then the meeting sentence, then
\* the labelled date: the labelled date was returned.
C14_Witness ==
    /\ call_result # None
    /\ call_args[1] = <<DateLines[4], DateLines[3], DateLines[1]>>
    /\ call_result[1] = Some(<<T("2024-03-05"), DateLines[1]>>)

\* C15: VoucherExtractor.extract returns what RuleBasedVoucherExtractor.extract
\* returns for the document when the provider has no client or its client's
\* extract raises NotImplementedError, and so for both providers with every
\* factory build_default makes (a DummyLLMClient without an API key, an
\* OpenAIClient or ClaudeClient with one); when the client's extract raises
\* another exception, an ExtractionError with its message is raised.
C15_ExtractorFallsBackToRuleBased ==
    call_result # None =>
        LET arguments == call_args[1]
            client == arguments._registry[arguments.provider]
            rule_based == Return(RuleBasedVoucherExtractor_extract(arguments.parsed))
            not_implemented ==
                /\ client \in {"OpenAIClient", "ClaudeClient", "FailingClient"}
                /\ client_extract(client).class = "NotImplementedError"
            other_failure ==
                /\ client \in {"OpenAIClient", "ClaudeClient", "FailingClient"}
                /\ client_extract(client).class # "NotImplementedError"
        IN  /\ (client = "unregistered" \/ not_implemented) => call_result[1] = rule_based
            /\ (/\ arguments._registry.openai \in {"DummyLLMClient", "OpenAIClient"}
                /\ arguments._registry.claude \in {"DummyLLMClient", "ClaudeClient"}) =>
                   call_result[1] = rule_based
            /\ other_failure =>
                   /\ call_result[1].raised
                   /\ call_result[1].class = "ExtractionError"
                   /\ call_result[1].value = client_extract(client).value

\* With the factory build_default makes when both API keys are configured,
\* the extraction for the provider claude returned the rule-based result.
C15_Witness ==
    /\ call_result # None
    /\ call_args[1]._registry = [openai |-> "OpenAIClient", claude |-> "ClaudeClient"]
    /\ call_args[1].provider = "claude"
    /\ ~call_result[1].raised
    /\ call_result[1].value = RuleBasedExtraction[call_args[1].parsed]
    /\ call_result[1].value.title.value = Some(T("Dividend Resolution"))

\* The result most recently saved under the key in a log of calls and not
\* deleted or cleared since, None without one.
RECURSIVE MostRecentlySaved(_, _)
MostRecentlySaved(log, key) ==
    IF log = <<>> THEN None
    ELSE LET last == log[Len(log)]
         IN  IF last.op = "save" /\ last.key = Some(key) THEN last.result
             ELSE IF last.op = "clear" \/ (last.op = "delete" /\ last.key = Some(key))
             THEN None
             ELSE MostRecentlySaved(SubSeq(log, 1, Len(log) - 1), key)

\* C16: after any sequence of save, delete and clear on an
\* InMemoryAnalysisStore, load(k) is the very result most recently saved
\* under k when k was not deleted or cleared since, None otherwise; keys()
\* lists exactly the keys whose load is not None; delete of an absent key
\* changes nothing and raises nothing.
C16_StoreKeepsLatestSave ==
    LET listed == keys(_store)
        last == call_args[Len(call_args)]
        before == SubSeq(call_args, 1, Len(call_args) - 1)
    IN  /\ \A key \in StoreKeys : load(_store, key) = MostRecentlySaved(call_args, key)
        /\ {listed[i] : i \in 1..Len(listed)} = {key \in StoreKeys : load(_store, key) # None}
        /\ Len(listed) = Cardinality({listed[i] : i \in 1..Len(listed)})
        /\ call_args # <<>> =>
            /\ ~call_result[1].outcome.raised
            /\ last.op = "load" =>
                call_result[1].outcome.value = MostRecentlySaved(before, last.key[1])
            /\ last.op = "keys" =>
                /\ {call_result[1].outcome.value[i] : i \in 1..Len(call_result[1].outcome.value)}
                       = {key \in StoreKeys : MostRecentlySaved(before, key) # None}
                /\ Len(call_result[1].outcome.value)
                       = Cardinality({key \in StoreKeys : MostRecentlySaved(before, key) # None})
            /\ (last.op = "delete" /\ MostRecentlySaved(before, last.key[1]) = None) =>
                _store = call_result[1]._store_before

\* A second save under a key replaced the first, a delete of an absent key
\* came in between, and load returned the second result.
C16_Witness ==
    /\ call_args = <<[op |-> "save", key |-> Some(T("a")), result |-> Some(1)],
                     [op |-> "delete", key |-> Some(T("b")), result |-> None],
                     [op |-> "save", key |-> Some(T("a")), result |-> Some(2)],
                     [op |-> "load", key |-> Some(T("a")), result |-> None]>>
    /\ call_result[1].outcome = Return(Some(2))

\* The stores the whole refresh actions and the whole analyses leave when one
\* runs after the other, in every order that keeps the refreshes in their
\* order and the analyses in theirs: a refresh leaves the store empty, an
\* analysis that saves leaves its result under 'latest', one that returns
\* before it saves leaves the store as it found it.
RECURSIVE SerialStores(_, _, _)
SerialStores(store, refreshes, analyses) ==
    IF refreshes = 0 /\ analyses = <<>> THEN {store}
    ELSE (IF refreshes > 0 THEN SerialStores(<<>>, refreshes - 1, analyses) ELSE {})
         \cup (IF analyses # <<>>
               THEN SerialStores(IF Head(analyses).saved
                                 THEN <<[key |-> LATEST, value |-> Head(analyses).id]>>
                                 ELSE store,
                                 refreshes, Tail(analyses))
               ELSE {})

\* C17: whenever the refresh actions and the analyses of a session that ran
\* interleaved have all finished, the store is in a state that some serial
\* order of these whole operations produces.
C17_InterleavingsLeaveSerialStore ==
    (\A run \in ScriptRuns : pc[run] = "idle") =>
        _store \in SerialStores(<<>>, session_state.uploader_key, call_args)

\* A refresh cleared the store between the save of an analysis and the
\* assignment of its result to the session.
C17_Witness ==
    /\ \A run \in ScriptRuns : pc[run] = "idle"
    /\ calls >= 1
    /\ session_state.uploader_key >= 1
    /\ session_state.analysis_result = Some(calls)
    /\ call_args[calls].saved
    /\ _store = <<>>

\* The bytes, after leading white space, begin with "%PDF".
HasPdfSignature(file_bytes) ==
    \E k \in 0..Len(file_bytes) :
        /\ \A i \in 1..k : file_bytes[i] \in {32, 9, 10, 11, 12, 13}
        /\ Len(file_bytes) >= k + 4
        /\ SubSeq(file_bytes, k + 1, k + 4) = <<37, 80, 68, 70>>

\* The well-formed UTF-8 sequences of the bytes, decoded, from index i on:
\* every byte that starts or continues no well-formed sequence is skipped.
RECURSIVE PermissivelyDecoded(_, _)
PermissivelyDecoded(b, i) ==
    IF i > Len(b) THEN <<>>
    ELSE IF b[i] < 128 THEN <<b[i]>> \o PermissivelyDecoded(b, i + 1)
    ELSE IF b[i] \in 194..223 /\ i + 1 <= Len(b) /\ b[i + 1] \in 128..191
    THEN <<(b[i] - 192) * 64 + (b[i + 1] - 128)>> \o PermissivelyDecoded(b, i + 2)
    ELSE PermissivelyDecoded(b, i + 1)

\* C18: PdfIngestor.parse raises on an empty upload; for a non-empty upload
\* without the %PDF signature it returns a ParsedDocument whose only page is
\* the permissively decoded text, with no tokens and page_count 1, and no
\* PDF reader is consulted.
C18_ParseReadsTextUploads ==
    call_result # None =>
        LET file_bytes == call_args[1]
            returned == call_result[1]
        IN  /\ file_bytes = <<>> => returned.outcome.raised
            /\ (file_bytes # <<>> /\ ~HasPdfSignature(file_bytes)) =>
                /\ ~returned.outcome.raised
                /\ returned.outcome.value.pages = <<PermissivelyDecoded(file_bytes, 1)>>
                /\ returned.outcome.value.tokens = <<>>
                /\ returned.outcome.value.metadata.page_count = Some(1)
                /\ returned.consulted = <<>>

\* A text upload with the signature not at its start and a byte that is not
\* UTF-8 was read as one page.
C18_Witness ==
    /\ call_args = Some(<<80, 37, 80, 68, 70>>) \/ call_args = Some(<<195, 32, 195, 169, 32>>)
    /\ call_result # None
    /\ ~call_result[1].outcome.raised
    /\ Len(call_result[1].outcome.value.pages) = 1

\* C19: with a span list that is not empty and a document of at least one
\* page, render returns bytes that begin with "%PDF", are not the original
\* bytes, and contain an annotation entry, "/Annots", for the highlights.
C19_RenderAnnotatesHighlights ==
    (rendered # None /\ rendered[1].passes = 1 /\ ~RenderIsNoOp(rendered[1])) =>
        /\ StartsWith(rendered[1].output, T("%PDF"))
        /\ rendered[1].output # rendered[1].original_pdf
        /\ Contains(T("/Annots"), rendered[1].output)

\* C20: the source_highlights of the ExtractedVoucherData an extraction path
\* returns, the rule-based engine or the mapping of a client's response, are
\* the source_spans of title, company_name, resolution_date and
\* dividend_amount, concatenated in this order.
C20_HighlightsAreTheFieldSpans ==
    (call_result # None /\ ~call_result[1].raised) =>
        call_result[1].value.source_highlights
            = call_result[1].value.title.source_spans
                \o call_result[1].value.company_name.source_spans
                \o call_result[1].value.resolution_date.source_spans
                \o call_result[1].value.dividend_amount.source_spans

\* The stages of analyze_voucher in the order of the pipeline.
StageOrder == <<"parse", "extract", "validate", "render", "save">>

StageIndex(stage) == CHOOSE k \in 1..Len(StageOrder) : StageOrder[k] = stage

\* C21: analyze_voucher invokes parse, extract, validate and render at most
\* once each, each only after the stage before it returned; store.save is
\* invoked only after render was attempted; after a failed parse or a failed
\* extract no later stage is invoked.
C21_StagesRunInPipelineOrder ==
    analysis # None =>
        LET log == analysis[1].log
        IN  /\ log # <<>> /\ log[1].stage = "parse"
            /\ \A i \in 2..Len(log) :
                /\ StageIndex(log[i].stage) = StageIndex(log[i - 1].stage) + 1
                /\ log[i].stage \in {"extract", "validate", "render"} => ~log[i - 1].raised
                /\ log[i].stage = "save" => log[i - 1].stage = "render"
            /\ \A i \in 1..Len(log) :
                (log[i].stage \in {"parse", "extract"} /\ log[i].raised) => i = Len(log)

\* One call ran all five stages, render raised and save was still invoked;
\* another call stopped at a failed extract.
C21_Witness ==
    /\ analysis # None
    /\ \/ /\ Len(analysis[1].log) = 5
          /\ analysis[1].log[4] = [stage |-> "render", raised |-> TRUE]
          /\ analysis[1].log[5].stage = "save"
       \/ /\ calls = 2
          /\ analysis[1].log = <<[stage |-> "parse", raised |-> FALSE],
                                 [stage |-> "extract", raised |-> TRUE]>>

\* C22: for an upload with the %PDF signature parse tries the readers in
\* their order and takes the first that succeeds: a reader that raises or
\* yields no pages does not end parse, the next one is tried, down to the
\* fallback, and parse returns a document of at least one page.
C22_ParseFallsThroughTheReaders ==
    (call_result # None /\ HasPdfSignature(call_args[1])) =>
        /\ ~call_result[1].outcome.raised
        /\ Len(call_result[1].outcome.value.pages) >= 1

\* The pages of the file of a source as the claims C23 and C24 count them:
\* one page per kept object of /Type /Page, in the order of the file.
PageObjectsOf(source) == SelectSeq(<<3, 5>>, LAMBDA id : id \in source.kept)

\* The text of a page of the pool when each error of a content stream stays
\* in that stream.
ContainedText(source, id) ==
    IF id = 3 THEN PoolStreams[source.stream4].shown
    ELSE Join(SelectSeq(<<PoolStreams[source.stream6].shown, PoolStreams[source.stream7].shown>>,
                        LAMBDA text : text # <<>>), <<10>>)

\* C23: an error of one page's extraction (a content stream that does not
\* inflate, a literal string with an octal escape up to \777) stays on that
\* page: parse does not raise, and every page object's text is the text of
\* its streams without the failing one.  The page objects are the last
\* entries of the page list, in file order.
C23_PageErrorsStayOnThePage ==
    (/\ call_result # None
     /\ call_result[1].parsed # None
     /\ call_args[1].source.built = None
     /\ PageObjectsOf(call_args[1].source) # <<>>) =>
        LET ids == PageObjectsOf(call_args[1].source)
            outcome == call_result[1].parsed[1]
        IN  /\ ~outcome.raised
            /\ Len(outcome.value.pages) >= Len(ids)
            /\ \A k \in 1..Len(ids) :
                   outcome.value.pages[Len(outcome.value.pages) - Len(ids) + k]
                       = ContainedText(call_args[1].source, ids[k])

\* C24: the internal parser yields one page per object of /Type /Page and
\* none for the catalog and the page tree, page_count is that number, and a
\* file of the highlight writer for n pages is parsed into n pages.
C24_OnePagePerPageObject ==
    (/\ call_result # None
     /\ call_result[1].parsed # None
     /\ ~call_result[1].parsed[1].raised
     /\ call_args[1].pypdf = Return(<<>>)) =>
        LET outcome == call_result[1].parsed[1]
            source == call_args[1].source
            expected == IF source.built # None THEN Len(source.built[1])
                        ELSE Len(PageObjectsOf(source))
        IN  expected >= 1 =>
                /\ Len(outcome.value.pages) = expected
                /\ outcome.value.metadata.page_count = Some(expected)

\* All four components of a box lie in [0, 1].
InUnitSquare(box) ==
    /\ \A c \in {1, 3} : box.bbox[c] >= 0 /\ box.bbox[c] <= box.x_one
    /\ \A c \in {2, 4} : box.bbox[c] >= 0 /\ box.bbox[c] <= box.y_one

\* C25: the box of every span lies in [0, 1]^4, for the boxes normalized
\* from an external extractor and for the boxes of the lines of the
\* fallback, whatever the number of lines of the page.
C25_SpanBoxesInUnitSquare ==
    call_result # None =>
        \A k \in 1..Len(call_result[1]) : InUnitSquare(call_result[1][k])

\* C26: on a page of positive size _normalize_bbox returns a box of positive
\* area, x0 < x1 and y0 < y1, for every input box.
C26_NormalizedBoxHasArea ==
    (/\ call_result # None
     /\ call_args[1].visible_count = 0
     /\ call_args[1].width > 0
     /\ call_args[1].height > 0) =>
        /\ call_result[1][1].bbox[1] < call_result[1][1].bbox[3]
        /\ call_result[1][1].bbox[2] < call_result[1][1].bbox[4]

\* The number written in the bytes from index i on.
NumberAt(b, i) == ToInt(SubSeq(b, i, i + ByteRun(b, i, "digit") - 1))

\* The object id of the reference "name id 0 R" of a dictionary, 0 without one.
RefAfter(name, body) ==
    LET id_at(i) == IF i = 0 \/ ~MatchAt(T(" 0 R"), body, i + Len(name) + ByteRun(body, i + Len(name), "digit"))
                    THEN 0 ELSE NumberAt(body, i + Len(name))
    IN  id_at(FindFrom(name, body, 1))

\* The cross-reference table at byte position xref_start (0-based, the
\* index xref_start + 1 of the sequence) lists the objects 1..max of the
\* file: the keyword, the size max + 1, and for every id the byte position
\* of its header "id 0 obj".
XrefLocatesObjects(file_bytes, objects, xref_start) ==
    LET size == NumberAt(file_bytes, xref_start + 8)
        entries == xref_start + 8 + ByteRun(file_bytes, xref_start + 8, "digit") + 1
        offset(id) == NumberAt(file_bytes, entries + 20 * id)
    IN  /\ MatchAt(T("\nxref\n0 "), file_bytes, xref_start)
        /\ size >= 1
        /\ {objects[k].key : k \in 1..Len(objects)} = 1..(size - 1)
        /\ MatchAt(T("trailer\n"), file_bytes, entries + 20 * size)
        /\ \A id \in 1..(size - 1) :
               /\ ByteRun(file_bytes, entries + 20 * id, "digit") = 10
               /\ MatchAt(T(" 00000 n \n"), file_bytes, entries + 20 * id + 10)
               /\ MatchAt(T("\n") \o IntToText(id) \o T(" 0 obj\n"), file_bytes, offset(id))

\* Root names the catalog, its Pages the page tree, the Kids are count page
\* objects, and each page names the page tree as Parent, a font and an
\* object with a stream as Contents.
ReferencesResolve(file_bytes, objects, count) ==
    LET page(raw, pages_id) ==
            /\ Contains(T("/Type /Page "), raw)
            /\ RefAfter(T("/Parent "), raw) = pages_id
            /\ Contains(T("/Type /Font"), ObjectGet(objects, RefAfter(T("/F1 "), raw)))
            /\ Len(_resolve_contents_ids(raw)) = 1
            /\ Contains(T("\nstream\n"), ObjectGet(objects, _resolve_contents_ids(raw)[1]))
        tree(raw, pages_id) ==
            LET kids(ids) == /\ Len(ids) = count
                             /\ \A k \in 1..Len(ids) : page(ObjectGet(objects, ids[k]), pages_id)
            IN  /\ Contains(T("/Type /Pages"), raw)
                /\ Contains(T("/Count "), raw)
                /\ NumberAt(raw, FindFrom(T("/Count "), raw, 1) + 7) = count
                /\ Contains(T("/Kids ["), raw)
                /\ kids(IndirectRefs(SubSeq(raw, FindFrom(T("/Kids ["), raw, 1), Len(raw)), 1))
        catalog(raw) ==
            /\ Contains(T("/Type /Catalog"), raw)
            /\ tree(ObjectGet(objects, RefAfter(T("/Pages "), raw)), RefAfter(T("/Pages "), raw))
    IN  catalog(ObjectGet(objects, RefAfter(T("/Root "), file_bytes)))

\* C27: in every file that build() writes the cross-reference table has an
\* entry for every object id 1..max with the byte position of the object's
\* header, startxref is the byte position of the xref keyword, and Root,
\* Pages, Kids, Parent, Font and Contents name objects of their kind.
C27_BuiltFileIsCrossReferenced ==
    (call_result # None /\ call_args[1].source.built # None) =>
        LET checked(file_bytes, objects, startxref) ==
                /\ startxref # 0
                /\ XrefLocatesObjects(file_bytes, objects, NumberAt(file_bytes, startxref + 10))
                /\ MatchAt(T("\n%%EOF"), file_bytes,
                           startxref + 10 + ByteRun(file_bytes, startxref + 10, "digit"))
                /\ ReferencesResolve(file_bytes, objects, Len(call_args[1].source.built[1]))
        IN  checked(call_result[1].file_bytes, _build_object_table(call_result[1].file_bytes),
                    FindFrom(T("startxref\n"), call_result[1].file_bytes, 1))

\* A file of two pages is built, with a highlight and a line of multi-byte
\* text on the first page.
C27_Witness ==
    /\ call_result # None
    /\ call_args[1].source.built # None
    /\ Len(call_args[1].source.built[1]) = 2
    /\ call_args[1].source.built[1][1] = << <<<<12354>> \o T("(x)"), T("b")>>, << <<10, 30, 90, 40>> >> >>
    /\ Contains(<<227, 129, 130>>, call_result[1].file_bytes)

\* C28: for an amount written with the multiplier U+5104 _extract_numeric
\* returns the figure before it times 100,000,000, grouped by commas
\* ("300,000,000" for 3, "150,000,000" for 1.5).
C28_HundredMillionsAreMultiplied ==
    (call_result # None /\ Contains(<<20740>>, call_args[1].unit)) =>
        call_result[1] = Some(call_args[1].figure.oku)

\* The positive scores of what _extract_title proposes: the metadata title
\* and the lines of the first two pages.
PositiveTitleScores(parsed) ==
    LET lines == SelectSeq(_collect_lines(parsed), LAMBDA line : line.page <= 2)
        line_score(line) ==
            LET normalized_line == _normalize_delimiters(line.text)
            IN  IF normalized_line = <<>> THEN 0
                ELSE IF TITLE_PATTERN(normalized_line)
                THEN 250 - (line.page - 1) * 50 - (IF line.index < 5 THEN line.index ELSE 5) * 10
                ELSE _score_title_candidate(normalized_line, line.page, line.index, FALSE)
        metadata_scores ==
            IF parsed.metadata.Title = None THEN {}
            ELSE {_score_title_candidate(_normalize_delimiters(parsed.metadata.Title[1]),
                                         0, 0, TRUE)}
    IN  {score \in metadata_scores \cup {line_score(lines[k]) : k \in 1..Len(lines)} :
             score > 0}

\* Of two scores the higher never gets the lower confidence.
ConfidenceIsMonotonic ==
    (call_result # None /\ Len(call_result[1].confidences) = 2) =>
        (call_args[1].scores[1] <= call_args[1].scores[2] =>
             call_result[1].confidences[1] <= call_result[1].confidences[2])

\* C29 as stated: whenever the extractor sets a title, by a pattern match, a
\* scored candidate or the first line of page 1, its confidence c satisfies
\* 0.55 <= c < 1.0, and c is non-decreasing in the winning score.
C29_TitleConfidenceAtLeastFloor ==
    /\ (call_result # None /\ call_result[1].title.value # None) =>
           /\ 385 <= call_result[1].title.confidence[1]
           /\ call_result[1].title.confidence[1] < 700
    /\ ConfidenceIsMonotonic

\* C29, amended: a title set from a candidate (a pattern match or a scored
\* line or metadata title) has the confidence of a candidate's score, with
\* 0.55 <= c <= 0.95, and c is non-decreasing in the score; a title set from
\* the first line of page 1 because nothing scored has confidence 0.5.
C29_TitleConfidenceByOrigin ==
    /\ (call_result # None /\ call_result[1].title.value # None) =>
           LET c == call_result[1].title.confidence[1]
               scores == PositiveTitleScores(call_args[1].parsed)
           IN  IF scores # {}
               THEN /\ c \in {_confidence_from_title_score(score) : score \in scores}
                    /\ 385 <= c
                    /\ c <= 665
               ELSE c = 350
    /\ ConfidenceIsMonotonic

\* A scored line that no pattern matches won, strictly inside the clamp.
C29_Witness ==
    /\ call_result # None
    /\ call_result[1].title.value = Some(T("Annual Report 2024"))
    /\ call_result[1].title.confidence[1] > 385
    /\ call_result[1].title.confidence[1] < 665
    /\ call_args[1].parsed.metadata.Title = None

\* C30 as stated: every resolution_date the rule-based extractor produces
\* from a line with a date in one of the three notations, whatever its month
\* and day, makes VoucherValidator report PASS for resolution_date.
C30_ExtractedDateIsAccepted ==
    (vreport # None /\ is_set(vdata.resolution_date)) =>
        vreport[1].requirements[3].value.status = "PASS"

\* C30, amended: the extractor produces the zero-padded year-month-day of
\* the line, and VoucherValidator reports PASS for resolution_date exactly
\* when month and day are a date of the calendar; for the others it reports
\* FAIL.
C30_ExtractedDateAcceptedIffCalendar ==
    vreport # None =>
        LET date == call_args[1].date
        IN  /\ vdata = call_result[1]
            /\ vdata.resolution_date.value =
                   Some(NatToText(date.year) \o T("-") \o ZeroPad(NatToText(date.month), 2)
                            \o T("-") \o ZeroPad(NatToText(date.day), 2))
            /\ vreport[1].requirements[3].key = "resolution_date"
            /\ vreport[1].requirements[3].value.status =
                   (IF IsCalendarDate(date.year, date.month, date.day) THEN "PASS" ELSE "FAIL")

\* The last day of February of a leap year, written in the Reiwa notation,
\* was extracted and passed.
C30_Witness ==
    /\ vreport # None
    /\ call_args[1].date.notation = "reiwa"
    /\ vdata.resolution_date.value = Some(T("2024-02-29"))
    /\ vreport[1].requirements[3].value.status = "PASS"

====
